---- MODULE Spec2Model ----
(***************************************************************************)
(* Grade-record service of Lab2_Distribuidas: the threaded server          *)
(* (src/con_hilos/server.py), the sequential server                        *)
(* (src/sin_hilos/server.py) and the client side of the NRC catalog        *)
(* lookup.  One connection is one unit of work; the Store is the file      *)
(* calificaciones.csv, the roster is estudiantes.csv.                      *)
(*                                                                         *)
(* Python sequences are 0-based, TLA+ sequences 1-based: parts[0] of the   *)
(* source is parts[1] here.                                                *)
(***************************************************************************)
EXTENDS Integers, Sequences, FiniteSets, TLC

(* ------------------------------ bounds -------------------------------- *)

\* connections the Listener accepts in one run
NumConn == 2

\* rows of calificaciones.csv when the server starts
MaxInitRows == 1

Conn == 1..NumConn

IDs == {"S1", "S2"}

\* the students the requests that change the Store are about
MutIDs == {"S1"}

Materias == {"C1", "C2"}

\* grade of the rows present at start, of AGREGAR requests, of ACTUALIZAR requests
InitGrades == {"G0"}

InsertGrades == {"G1"}

UpdateGrades == {"G2"}

\* another grade an AGREGAR request for C1 may carry, so that an insert of a
\* stored pair can come with a grade that differs from the stored one
ReinsertGrades == {"G3"}

(* ----------------------------- sequences ------------------------------ *)

Range(s) == {s[i] : i \in DOMAIN s}

\* position of the first element of s equal to x, 0 when there is none
IndexOf(s, x) ==
    IF \E i \in DOMAIN s : s[i] = x
    THEN CHOOSE i \in DOMAIN s : s[i] = x /\ \A j \in 1..(i - 1) : s[j] # x
    ELSE 0

(* --------------------------- the two files ---------------------------- *)

FIELDNAMES == <<"ID_Estudiante", "Materia", "Calificacion">>

\* a file that open("w") has truncated and nothing has been written to yet
EmptyFile == <<>>

\* csv.DictReader: the first line names the columns, every later line is a
\* dict from the column names to the line's values; an empty file has no rows
load_records(f) ==
    IF Len(f) = 0 THEN <<>>
    ELSE LET header == f[1]
         IN  [i \in 1..(Len(f) - 1) |->
                 [k \in Range(header) |-> f[i + 1][IndexOf(header, k)]]]

\* a writer that writes the header and no row
save_records_header_only(recs) == <<FIELDNAMES>>

\* csv.DictWriter: the header line, then one line per dict, the values in
\* FIELDNAMES order
save_records(recs) ==
    <<FIELDNAMES>> \o
    [i \in 1..Len(recs) |-> [j \in 1..Len(FIELDNAMES) |-> recs[i][FIELDNAMES[j]]]]

\* ensure_csv_exists: the file exists from serve_forever's call on, so the
\* calls made inside the handlers find it and leave it as it is
ensure_csv_exists(f) == f

Row(s, m, g) == [ID_Estudiante |-> s, Materia |-> m, Calificacion |-> g]

\* the roster: estudiantes.csv as a map from the ids present to their names.
\* Python's None is <<>>, a name n is <<n>>.
get_estudiante_nombre(est, student_id) ==
    IF student_id \in DOMAIN est THEN <<est[student_id]>> ELSE <<>>

\* load_estudiantes_map: rows with an empty id are skipped
load_estudiantes_map(est) ==
    [sid \in {s \in DOMAIN est : s # ""} |-> est[sid]]

\* the rosters an outside party can leave in estudiantes.csv: S1 absent, or
\* present with a name or with an empty Nombre column; S2 present
Rosters ==
    {est \in UNION {[D -> {"Ana", "Luis", ""}] : D \in SUBSET IDs} :
        /\ "S2" \in DOMAIN est /\ est["S2"] = "Luis"
        /\ "S1" \in DOMAIN est => est["S1"] \in {"Ana", ""}}

NoDuplicates(recs) ==
    \A i, j \in DOMAIN recs :
        (recs[i].ID_Estudiante = recs[j].ID_Estudiante
            /\ recs[i].Materia = recs[j].Materia) => i = j

InitRows == {Row(s, m, g) : s \in IDs, m \in Materias, g \in InitGrades}

InitStores ==
    {rs \in UNION {[1..n -> InitRows] : n \in 0..MaxInitRows} : NoDuplicates(rs)}

(* ------------------------------ the wire ------------------------------ *)

\* What a peer sends is a sequence of tokens: field texts, the delimiter "|",
\* blanks " " and line breaks "\n".

RECURSIVE Concat(_)
Concat(toks) == IF toks = <<>> THEN "" ELSE Head(toks) \o Concat(Tail(toks))

RECURSIVE Join(_)
Join(fields) ==
    IF Len(fields) = 0 THEN <<>>
    ELSE IF Len(fields) = 1 THEN <<fields[1]>>
    ELSE <<fields[1], "|">> \o Join(Tail(fields))

\* a reader that hands over every byte it got, line breaks included
recv_line_whole(data) == data

\* recv_line: the bytes before the first line break, or all of them when the
\* peer closed without one.  (None, when there is no byte at all, is decided
\* by the caller: see handle_client_recv.)
recv_line(data) ==
    LET i == IndexOf(data, "\n")
    IN  IF i = 0 THEN data ELSE SubSeq(data, 1, i - 1)

\* str.strip()
RECURSIVE strip(_)
strip(l) ==
    IF l = <<>> THEN l
    ELSE IF Head(l) = " " THEN strip(Tail(l))
    ELSE IF l[Len(l)] = " " THEN strip(SubSeq(l, 1, Len(l) - 1))
    ELSE l

\* str.split("|") of a non-empty line
RECURSIVE split(_)
split(l) ==
    LET i == IndexOf(l, "|")
    IN  IF i = 0 THEN <<Concat(l)>>
        ELSE <<Concat(SubSeq(l, 1, i - 1))>> \o split(SubSeq(l, i + 1, Len(l)))

\* process_command: line.strip(), then line.split("|") if line else []
Parts(l) == IF strip(l) = <<>> THEN <<>> ELSE split(strip(l))

\* str.upper() on the command names that occur
upper(s) ==
    CASE s = "listar" -> "LISTAR"
      [] s = "hola" -> "HOLA"
      [] OTHER -> s

\* the request lines of the protocol, as fields: the requests that change the
\* Store are about the students of MutIDs, the rows of the others stand by
Requests ==
    {<<"AGREGAR", s, "Nom", m, g>> : s \in MutIDs, m \in Materias, g \in InsertGrades}
    \cup {<<"AGREGAR", s, m, g>> : s \in MutIDs, m \in Materias, g \in InsertGrades}
    \cup {<<"AGREGAR", s, "Nom", "C1", g>> : s \in MutIDs, g \in ReinsertGrades}
    \cup {<<"AGREGAR", s, "C1", g>> : s \in MutIDs, g \in ReinsertGrades}
    \cup {<<"BUSCAR", s>> : s \in IDs}
    \cup {<<"ACTUALIZAR", s, g>> : s \in MutIDs, g \in UpdateGrades}
    \cup {<<"ACTUALIZAR", s, m, g>> : s \in MutIDs, m \in Materias, g \in UpdateGrades}
    \cup {<<"LISTAR">>}
    \cup {<<"ELIMINAR", s>> : s \in MutIDs}
    \cup {<<"ELIMINAR", s, m>> : s \in MutIDs, m \in Materias \cup {""}}
    \cup {<<"HOLA">>, <<"BUSCAR">>}
    \cup {<<"ACTUALIZAR", "S1">>, <<"LISTAR", "S1">>, <<"ELIMINAR">>}

\* what a peer may send before it stops sending: a request line, nothing at
\* all, an empty line, a blank-padded lower-case line followed by more bytes,
\* and a request without a line break
WireData ==
    {Join(r) \o <<"\n">> : r \in Requests}
    \cup {<<>>, <<"\n">>,
          <<" ", "listar", " ", "\n", "ELIMINAR", "|", "S1", "\n">>,
          <<"BUSCAR", "|", "S1">>}

(* ------------------------------ replies ------------------------------- *)

\* a dict with the keys the reply has, as the source builds it
Error(msg) == [status |-> "error", message |-> msg]

NotFound(msg) == [status |-> "not_found", message |-> msg]

Ok(data) == [status |-> "ok", data |-> data]

\* no reply built yet
NoResp == [status |-> "(none)"]

\* dict(r) with r["Nombre"] = nombre
WithNombre(r, nombre) ==
    [k \in DOMAIN r \cup {"Nombre"} |-> IF k = "Nombre" THEN nombre ELSE r[k]]

Matches(r, student_id, materia) ==
    r["ID_Estudiante"] = student_id /\ r["Materia"] = materia

\* the rows of recs for which Keep holds, in order
Filter(recs, Keep(_)) == SelectSeq(recs, Keep)

\* an update that sets the grade of every record of the id
SetFirst_every_record(recs, student_id, materia, nueva_cal) ==
    [i \in DOMAIN recs |->
        IF recs[i]["ID_Estudiante"] = student_id
        THEN [recs[i] EXCEPT !["Calificacion"] = nueva_cal]
        ELSE recs[i]]

\* for r in records: if match: r["Calificacion"] = nueva_cal; break
SetFirst(recs, student_id, materia, nueva_cal) ==
    IF \E i \in DOMAIN recs : Matches(recs[i], student_id, materia)
    THEN LET i == CHOOSE i \in DOMAIN recs :
                     /\ Matches(recs[i], student_id, materia)
                     /\ \A j \in 1..(i - 1) : ~Matches(recs[j], student_id, materia)
         IN  [recs EXCEPT ![i] = [recs[i] EXCEPT !["Calificacion"] = nueva_cal]]
    ELSE recs

(* ------------------- the handlers' Store sections --------------------- *)

\* What a handler does with the records it loaded under the guard:
\*   next = "reply": it returns resp without persisting;
\*   next = "save":  it persists records, then returns resp;
\*   next = "est":   it leaves the guard with rows = records and goes on to
\*                   the roster join.

\* handle_agregar without its uniqueness check
handle_agregar_section_nocheck(parts, nombre, recs) ==
    LET new_row == Row(parts[2], parts[4], parts[5])
    IN  [next |-> "save", records |-> Append(recs, new_row),
         resp |-> Ok(WithNombre(new_row, nombre[1]))]

handle_agregar_section(parts, nombre, recs) ==
    LET student_id == parts[2]
        materia == parts[4]
        calificacion == parts[5]
        new_row == Row(student_id, materia, calificacion)
    IN  IF \E i \in DOMAIN recs : Matches(recs[i], student_id, materia)
        THEN [next |-> "reply", records |-> recs,
              resp |-> Error("La nota para ese ID y Materia ya existe")]
        ELSE [next |-> "save", records |-> Append(recs, new_row),
              resp |-> Ok(WithNombre(new_row, nombre[1]))]

\* sin_hilos handle_agregar on the loaded records: parts are
\* AGREGAR|ID|Materia|Calificacion
seq_handle_agregar_section(parts, nombre, recs) ==
    LET student_id == parts[2]
        materia == parts[3]
        calificacion == parts[4]
        new_row == Row(student_id, materia, calificacion)
    IN  IF \E i \in DOMAIN recs : Matches(recs[i], student_id, materia)
        THEN [next |-> "reply", records |-> recs,
              resp |-> Error("La nota para ese ID y Materia ya existe")]
        ELSE [next |-> "save", records |-> Append(recs, new_row),
              resp |-> Ok(WithNombre(new_row, nombre[1]))]

handle_buscar_section(parts, recs) ==
    LET student_id == parts[2]
        IsOf(r) == r["ID_Estudiante"] = student_id
        rows == Filter(recs, IsOf)
    IN  IF rows = <<>>
        THEN [next |-> "reply", records |-> rows,
              resp |-> NotFound("No existe el ID")]
        ELSE [next |-> "est", records |-> rows, resp |-> NoResp]

\* handle_actualizar whose ID|nueva form echoes no Materia in its reply
handle_actualizar_section_no_echo(parts, recs) ==
    LET student_id == parts[2]
        materia == IF Len(parts) = 4 THEN parts[3]
                   ELSE IF \E i \in DOMAIN recs : recs[i]["ID_Estudiante"] = student_id
                        THEN recs[CHOOSE i \in DOMAIN recs :
                                    recs[i]["ID_Estudiante"] = student_id]["Materia"]
                        ELSE ""
        nueva_cal == parts[Len(parts)]
    IN  IF \E i \in DOMAIN recs : Matches(recs[i], student_id, materia)
        THEN [next |-> "save",
              records |-> SetFirst(recs, student_id, materia, nueva_cal),
              resp |-> IF Len(parts) = 4
                       THEN Ok(Row(student_id, materia, nueva_cal))
                       ELSE Ok([ID_Estudiante |-> student_id,
                                Calificacion |-> nueva_cal])]
        ELSE [next |-> "reply", records |-> recs,
              resp |-> NotFound("No existe nota para ese ID y Materia")]

handle_actualizar_section(parts, recs) ==
    LET student_id == parts[2]
    IN  IF Len(parts) = 4
        THEN LET materia == parts[3]
                 nueva_cal == parts[4]
             IN  IF \E i \in DOMAIN recs : Matches(recs[i], student_id, materia)
                 THEN [next |-> "save",
                       records |-> SetFirst(recs, student_id, materia, nueva_cal),
                       resp |-> Ok(Row(student_id, materia, nueva_cal))]
                 ELSE [next |-> "reply", records |-> recs,
                       resp |-> NotFound("No existe nota para ese ID y Materia")]
        ELSE LET nueva_cal == parts[3]
                 IsOf(r) == r["ID_Estudiante"] = student_id
                 notas_id == Filter(recs, IsOf)
             IN  IF notas_id = <<>>
                 THEN [next |-> "reply", records |-> recs,
                       resp |-> NotFound("No existe el ID")]
                 ELSE IF Len(notas_id) > 1
                 THEN [next |-> "reply", records |-> recs,
                       resp |-> Error("El ID tiene varias notas; use ACTUALIZAR|ID|Materia|nueva")]
                 ELSE LET materia == notas_id[1]["Materia"]
                      IN  [next |-> "save",
                           records |-> SetFirst(recs, student_id, materia, nueva_cal),
                           resp |-> Ok(Row(student_id, materia, nueva_cal))]

handle_listar_section(parts, recs) ==
    [next |-> "est", records |-> recs, resp |-> NoResp]

\* handle_eliminar taking the id's first record when no materia is given
handle_eliminar_section_guessing(parts, recs) ==
    LET student_id == parts[2]
        IsOf(r) == r["ID_Estudiante"] = student_id
        notas_id == Filter(recs, IsOf)
        materia == IF Len(parts) = 3 /\ parts[3] # "" THEN parts[3]
                   ELSE IF notas_id = <<>> THEN "" ELSE notas_id[1]["Materia"]
        Other(r) == ~Matches(r, student_id, materia)
        new_records == Filter(recs, Other)
    IN  IF Len(new_records) = Len(recs)
        THEN [next |-> "reply", records |-> recs,
              resp |-> NotFound("No existe nota para ese ID y Materia")]
        ELSE [next |-> "save", records |-> new_records,
              resp |-> Ok([ID_Estudiante |-> student_id, Materia |-> materia])]

\* handle_eliminar that, for an id with several records and no materia, drops
\* them all before it reports the ambiguity
handle_eliminar_section_drops_all(parts, recs) ==
    LET student_id == parts[2]
        IsOf(r) == r["ID_Estudiante"] = student_id
        NotOf(r) == r["ID_Estudiante"] # student_id
        out == handle_eliminar_section_guessing(parts, recs)
        has_materia == Len(parts) = 3 /\ parts[3] # ""
    IN  IF ~has_materia /\ Len(Filter(recs, IsOf)) > 1
        THEN [next |-> "save", records |-> Filter(recs, NotOf),
              resp |-> Error("El ID tiene varias notas; especifique Materia (ELIMINAR|ID|Materia)")]
        ELSE IF ~has_materia /\ Filter(recs, IsOf) = <<>>
        THEN [next |-> "reply", records |-> recs,
              resp |-> NotFound("No existe el ID")]
        ELSE out

handle_eliminar_section(parts, recs) ==
    LET student_id == parts[2]
        \* materia = parts[2] if len(parts) == 3 else None; "if materia:" is
        \* false for None and for the empty string
        has_materia == Len(parts) = 3 /\ parts[3] # ""
    IN  IF has_materia
        THEN LET materia == parts[3]
                 Other(r) == ~Matches(r, student_id, materia)
                 new_records == Filter(recs, Other)
             IN  IF Len(new_records) = Len(recs)
                 THEN [next |-> "reply", records |-> recs,
                       resp |-> NotFound("No existe nota para ese ID y Materia")]
                 ELSE [next |-> "save", records |-> new_records,
                       resp |-> Ok([ID_Estudiante |-> student_id, Materia |-> materia])]
        ELSE LET IsOf(r) == r["ID_Estudiante"] = student_id
                 notas_id == Filter(recs, IsOf)
             IN  IF notas_id = <<>>
                 THEN [next |-> "reply", records |-> recs,
                       resp |-> NotFound("No existe el ID")]
                 ELSE IF Len(notas_id) > 1
                 THEN [next |-> "reply", records |-> recs,
                       resp |-> Error("El ID tiene varias notas; especifique Materia (ELIMINAR|ID|Materia)")]
                 ELSE LET unica_materia == notas_id[1]["Materia"]
                          Other(r) == ~Matches(r, student_id, unica_materia)
                      IN  [next |-> "save", records |-> Filter(recs, Other),
                           resp |-> Ok([ID_Estudiante |-> student_id,
                                        Materia |-> unica_materia])]

\* the roster join of handle_buscar: every row gets the name when it is truthy
handle_buscar_join(parts, rows, est) ==
    LET est_map == load_estudiantes_map(est)
        student_id == parts[2]
    IN  IF student_id \in DOMAIN est_map /\ est_map[student_id] # ""
        THEN Ok([i \in DOMAIN rows |-> WithNombre(rows[i], est_map[student_id])])
        ELSE Ok(rows)

\* the roster join of handle_listar: each row gets its own id's name
handle_listar_join(rows, est) ==
    LET est_map == load_estudiantes_map(est)
        Enrich(r) ==
            LET sid == r["ID_Estudiante"]
            IN  IF sid \in DOMAIN est_map /\ est_map[sid] # ""
                THEN WithNombre(r, est_map[sid]) ELSE r
    IN  Ok([i \in DOMAIN rows |-> Enrich(rows[i])])

(* ---------------- a request of the sequential server ------------------ *)

\* sin_hilos process_command on the line's parts, as one function of the
\* Store's records and the roster: the reply and the records of the Store
\* afterwards
seq_command(parts, recs, est) ==
    LET cmd == IF parts = <<>> THEN "" ELSE upper(parts[1])
        Rejected(msg) == [resp |-> Error(msg), store |-> recs]
        Done(sec) == [resp |-> sec.resp,
                      store |-> IF sec.next = "save" THEN sec.records ELSE recs]
    IN  CASE cmd = "BUSCAR" ->
               IF Len(parts) # 2
               THEN Rejected("Formato invalido para BUSCAR")
               ELSE LET sec == handle_buscar_section(parts, recs)
                    IN  IF sec.next = "est"
                        THEN [resp |-> handle_buscar_join(parts, sec.records, est),
                              store |-> recs]
                        ELSE Done(sec)
          [] cmd = "ACTUALIZAR" ->
               IF Len(parts) \notin {3, 4}
               THEN Rejected("Formato invalido para ACTUALIZAR (use ID|nueva o ID|Materia|nueva)")
               ELSE Done(handle_actualizar_section(parts, recs))
          [] cmd = "LISTAR" ->
               IF Len(parts) # 1
               THEN Rejected("Formato invalido para LISTAR")
               ELSE [resp |-> handle_listar_join(recs, est), store |-> recs]
          [] cmd = "ELIMINAR" ->
               IF Len(parts) \notin {2, 3}
               THEN Rejected("Formato invalido para ELIMINAR (use ID o ID|Materia)")
               ELSE Done(handle_eliminar_section(parts, recs))

(* ------------------------- the catalog lookup ------------------------- *)

\* What can happen to one lookup on the wire: the connection is refused or
\* times out, the service closes without a byte, or it answers one line.
\* The line is JSON for {"status": "ok", "data": ...}, {"status": "not_found"},
\* {"status": "error", "message": ...}, a dict with another status, a JSON
\* value that is no dict, or no JSON at all.
NrcOutcomes ==
    {"refused", "timeout", "closed", "ok", "not_found", "error", "other",
     "list", "garbage"}

\* a decoded value: its Python type and, for a dict, what .get("status") and
\* .get("message") return (<<>> is None)
PyDict(status, message) == [type |-> "dict", status |-> status, message |-> message]

PyList == [type |-> "list", status |-> <<>>, message |-> <<>>]

NoNrc == [type |-> "(none)", status |-> <<>>, message |-> <<>>]

consultar_nrc(outcome) ==
    CASE outcome = "refused" ->
            PyDict(<<"error">>, <<"NRC service error: Connection refused">>)
      [] outcome = "timeout" ->
            PyDict(<<"error">>, <<"NRC service error: timed out">>)
      [] outcome = "closed" ->
            PyDict(<<"error">>, <<"NRC service sin respuesta">>)
      [] outcome = "garbage" ->
            PyDict(<<"error">>, <<"NRC JSON invalido: garbage">>)
      [] outcome = "ok" -> PyDict(<<"ok">>, <<>>)
      [] outcome = "not_found" -> PyDict(<<"not_found">>, <<>>)
      [] outcome = "error" -> PyDict(<<"error">>, <<"Formato: BUSCAR_NRC|{nrc}">>)
      [] outcome = "other" -> PyDict(<<"busy">>, <<>>)
      [] outcome = "list" -> PyList

\* str() of an optional message inside an f-string
Str(opt) == IF opt = <<>> THEN "None" ELSE opt[1]

(* ------------------------------- state -------------------------------- *)

VARIABLES
    deployment,       \* which server runs: "con_hilos" or "sin_hilos"
    csv,              \* calificaciones.csv: its lines
    estudiantes,      \* estudiantes.csv: id -> name
    CSV_LOCK,         \* the workers inside "with CSV_LOCK"
    pc,               \* where each connection's unit of work stands
    parts,            \* process_command's parts, of the line recv_line returned
    nrc_resp,         \* handle_agregar's nrc_resp
    nombre_canonico,  \* handle_agregar's nombre_canonico
    records,          \* the handler's records / rows / new_records
    resp,             \* the reply (built but not yet returned while persisting)
    seq_store,        \* history: the Store of the handlers run one at a time
    seq_out,          \* history: what the handler's section gives on seq_store
    store0,           \* history: the records of the Store at start
    never_enrolled,   \* history: the ids no roster so far has had
    written_before,   \* history: the connections whose handler had returned
                      \* ok from a command that changes the Store when this
                      \* connection's line was received
    received,         \* history: the bytes recv_line got from the peer
    raised,           \* history: str(e) of the exception handle_client's try
                      \* block, or the one around sendall, caught last; ""
                      \* when there is none
    catalog           \* what the catalog service does with the lookup in
                      \* progress: "silent" (it never accepts, or accepts and
                      \* never answers), "answers", "" with no lookup

vars ==
    <<deployment, csv, estudiantes, CSV_LOCK, pc, parts, nrc_resp,
      nombre_canonico, records, resp, seq_store, seq_out, store0,
      never_enrolled, written_before, received, raised, catalog>>

shared == <<csv, estudiantes, CSV_LOCK>>

\* the history variables but raised
history_kept ==
    <<seq_store, seq_out, store0, never_enrolled, written_before, received>>

history == <<history_kept, raised, catalog>>

NoOut == [next |-> "(none)", records |-> <<>>, resp |-> NoResp]

P(c) == parts[c]

\* cmd = parts[0].upper()
Cmd(c) == IF P(c) = <<>> THEN "" ELSE upper(P(c)[1])

Init ==
    /\ deployment \in {"con_hilos", "sin_hilos"}
    /\ csv \in {save_records(rs) : rs \in InitStores}
    /\ estudiantes \in Rosters
    /\ CSV_LOCK = {}
    /\ pc = [c \in Conn |-> "idle"]
    /\ parts = [c \in Conn |-> <<>>]
    /\ nrc_resp = [c \in Conn |-> NoNrc]
    /\ nombre_canonico = [c \in Conn |-> <<>>]
    /\ records = [c \in Conn |-> <<>>]
    /\ resp = [c \in Conn |-> NoResp]
    /\ seq_store = load_records(csv)
    /\ seq_out = [c \in Conn |-> NoOut]
    /\ store0 = load_records(csv)
    /\ never_enrolled = IDs \ DOMAIN estudiantes
    /\ written_before = [c \in Conn |-> {}]
    /\ received = [c \in Conn |-> <<>>]
    /\ raised = [c \in Conn |-> ""]
    /\ catalog = [c \in Conn |-> ""]

\* the handler returns resp
Return(c, r) ==
    /\ resp' = [resp EXCEPT ![c] = r]
    /\ pc' = [pc EXCEPT ![c] = "reply"]

Goto(c, where) == pc' = [pc EXCEPT ![c] = where]

\* conn.recv fails
ConnectionReset == "[Errno 104] Connection reset by peer"

\* .get on the list json.loads returned
NoGet == "'list' object has no attribute 'get'"

\* CSV_PATH.open fails
TooManyFiles == "[Errno 24] Too many open files: 'calificaciones.csv'"

\* "except Exception as e": the reply is built from str(e)
Except(c, e) ==
    /\ raised' = [raised EXCEPT ![c] = e]
    /\ Return(c, Error("Excepcion: " \o e))

\* the connections whose handler has returned ok from AGREGAR, ACTUALIZAR or
\* ELIMINAR
HandlerWrote ==
    {e \in Conn : /\ pc[e] \in {"reply", "closed"}
                  /\ resp[e].status = "ok"
                  /\ Cmd(e) \in {"AGREGAR", "ACTUALIZAR", "ELIMINAR"}}

(* ------------------- the threaded server (con_hilos) ------------------ *)

\* how c's lookup can end: create_connection(..., timeout=3) makes connect and
\* recv raise after 3 seconds when the service is silent
LookupOutcomes(c) ==
    IF catalog[c] = "silent" THEN {"timeout"} ELSE NrcOutcomes

\* a lock whose acquire never waits
LockFree_never_waits(holders) == TRUE

\* threading.Lock: acquire goes through only when no worker holds the lock
LockFree(holders) == holders = {}

\* serve_forever: accept, then start the connection's thread; connections
\* are numbered in the order they are accepted
Accept(c) ==
    /\ deployment = "con_hilos"
    /\ pc[c] = "idle"
    /\ \A d \in Conn : d < c => pc[d] # "idle"
    /\ Goto(c, "await_line")
    /\ UNCHANGED <<deployment, shared, parts, nrc_resp, nombre_canonico, records,
                   resp, history>>

\* handle_client with recv_line outside the try block: a failed read ends the
\* thread, and "with conn" closes the connection without a reply
handle_client_recv_uncaught(c) ==
    /\ deployment = "con_hilos"
    /\ pc[c] = "await_line"
    /\ \/ \E data \in WireData :
             /\ received' = [received EXCEPT ![c] = data]
             /\ UNCHANGED raised
             /\ IF data = <<>>
                THEN Goto(c, "closed") /\ UNCHANGED <<parts, written_before>>
                ELSE /\ Goto(c, "dispatch")
                     /\ parts' = [parts EXCEPT ![c] = Parts(recv_line(data))]
                     /\ written_before' =
                           [written_before EXCEPT ![c] = HandlerWrote]
       \/ /\ raised' = [raised EXCEPT ![c] = ConnectionReset]
          /\ Goto(c, "closed")
          /\ UNCHANGED <<parts, written_before, received>>
    /\ UNCHANGED <<deployment, shared, nrc_resp, nombre_canonico, records, resp,
                   seq_store, seq_out, store0, never_enrolled, catalog>>

\* handle_client: recv_line; None (the peer closed without a byte) ends the
\* connection without a reply
handle_client_recv(c) ==
    /\ deployment = "con_hilos"
    /\ pc[c] = "await_line"
    /\ \/ \E data \in WireData :
             /\ received' = [received EXCEPT ![c] = data]
             /\ UNCHANGED <<resp, raised>>
             /\ IF data = <<>>
                THEN Goto(c, "closed") /\ UNCHANGED <<parts, written_before>>
                ELSE /\ Goto(c, "dispatch")
                     /\ parts' = [parts EXCEPT ![c] = Parts(recv_line(data))]
                     /\ written_before' =
                           [written_before EXCEPT ![c] = HandlerWrote]
       \/ \* conn.recv raises: the except branch builds the reply
          /\ Except(c, ConnectionReset)
          /\ UNCHANGED <<parts, written_before, received>>
    /\ UNCHANGED <<deployment, shared, nrc_resp, nombre_canonico, records,
                   seq_store, seq_out, store0, never_enrolled, catalog>>

\* process_command for a line that names no handler: empty, or unknown
process_command(c) ==
    /\ deployment = "con_hilos"
    /\ pc[c] = "dispatch"
    /\ Cmd(c) \notin {"AGREGAR", "BUSCAR", "ACTUALIZAR", "LISTAR", "ELIMINAR"}
    /\ IF P(c) = <<>>
       THEN Return(c, Error("Comando vacio"))
       ELSE Return(c, Error("Comando desconocido: " \o Cmd(c)))
    /\ UNCHANGED <<deployment, shared, parts, nrc_resp, nombre_canonico, records,
                   history>>

\* handle_agregar taking the guard before the lookup
handle_agregar_guard_first(c) ==
    /\ deployment = "con_hilos"
    /\ pc[c] = "dispatch"
    /\ Cmd(c) = "AGREGAR"
    /\ IF Len(P(c)) # 5
       THEN Return(c, Error("Formato invalido para AGREGAR")) /\ UNCHANGED CSV_LOCK
       ELSE /\ LockFree(CSV_LOCK)
            /\ CSV_LOCK' = CSV_LOCK \cup {c}
            /\ Goto(c, "nrc_wait") /\ UNCHANGED resp
    /\ UNCHANGED <<deployment, csv, estudiantes, parts, nrc_resp, nombre_canonico,
                   records, history>>

\* handle_agregar up to the moment the lookup's request is on its way
handle_agregar(c) ==
    /\ deployment = "con_hilos"
    /\ pc[c] = "dispatch"
    /\ Cmd(c) = "AGREGAR"
    /\ IF Len(P(c)) # 5
       THEN Return(c, Error("Formato invalido para AGREGAR")) /\ UNCHANGED catalog
       ELSE /\ Goto(c, "nrc_wait") /\ UNCHANGED resp
            /\ \E service \in {"silent", "answers"} :
                  catalog' = [catalog EXCEPT ![c] = service]
    /\ UNCHANGED <<deployment, shared, parts, nrc_resp, nombre_canonico, records,
                   history_kept, raised>>

\* handle_agregar answering every rejected lookup with one message
handle_agregar_nrc_one_message(c) ==
    /\ deployment = "con_hilos"
    /\ pc[c] = "nrc_wait"
    /\ \E outcome \in LookupOutcomes(c) :
          LET r == consultar_nrc(outcome)
          IN  /\ nrc_resp' = [nrc_resp EXCEPT ![c] = r]
              /\ IF r.type # "dict" \/ r.status \in {<<"error">>, <<"not_found">>}
                 THEN Return(c, Error("NRC invalido"))
                 ELSE Goto(c, "roster") /\ UNCHANGED resp
    /\ UNCHANGED <<deployment, shared, parts, nombre_canonico, records,
                   history_kept, raised>>
    /\ catalog' = [catalog EXCEPT ![c] = ""]

\* handle_agregar returning the catalog's answer as its own reply when the
\* answer's status is not ok
handle_agregar_nrc_passthrough(c) ==
    /\ deployment = "con_hilos"
    /\ pc[c] = "nrc_wait"
    /\ \E outcome \in LookupOutcomes(c) :
          LET r == consultar_nrc(outcome)
          IN  /\ nrc_resp' = [nrc_resp EXCEPT ![c] = r]
              /\ IF r.type # "dict"
                 THEN Except(c, NoGet)
                 ELSE IF r.status # <<"ok">>
                 THEN /\ Return(c, IF r.message = <<>>
                                   THEN [status |-> Str(r.status)]
                                   ELSE [status |-> Str(r.status),
                                         message |-> Str(r.message)])
                      /\ UNCHANGED raised
                 ELSE Goto(c, "roster") /\ UNCHANGED <<resp, raised>>
    /\ UNCHANGED <<deployment, shared, parts, nombre_canonico, records,
                   history_kept>>
    /\ catalog' = [catalog EXCEPT ![c] = ""]

\* handle_agregar whose lookup has no timeout: with a silent service connect
\* or recv never return
handle_agregar_nrc_no_timeout(c) ==
    /\ deployment = "con_hilos"
    /\ pc[c] = "nrc_wait"
    /\ catalog[c] # "silent"
    /\ \E outcome \in NrcOutcomes \ {"timeout"} :
          LET r == consultar_nrc(outcome)
              materia == P(c)[4]
          IN  /\ nrc_resp' = [nrc_resp EXCEPT ![c] = r]
              /\ IF r.type # "dict"
                 THEN Except(c, NoGet)
                 ELSE IF r.status = <<"error">>
                 THEN /\ Return(c, Error("Fallo validacion NRC: " \o Str(r.message)))
                      /\ UNCHANGED raised
                 ELSE IF r.status = <<"not_found">>
                 THEN /\ Return(c, Error("NRC no encontrado: " \o materia))
                      /\ UNCHANGED raised
                 ELSE Goto(c, "roster") /\ UNCHANGED <<resp, raised>>
    /\ UNCHANGED <<deployment, shared, parts, nombre_canonico, records,
                   history_kept>>
    /\ catalog' = [catalog EXCEPT ![c] = ""]

\* handle_agregar looking at the roster before it looks at nrc_resp
handle_agregar_nrc_roster_first(c) ==
    /\ deployment = "con_hilos"
    /\ pc[c] = "nrc_wait"
    /\ \E outcome \in LookupOutcomes(c) :
          LET r == consultar_nrc(outcome)
              materia == P(c)[4]
          IN  /\ nrc_resp' = [nrc_resp EXCEPT ![c] = r]
              /\ IF get_estudiante_nombre(estudiantes, P(c)[2]) = <<>>
                 THEN /\ Return(c, Error("ID_Estudiante no encontrado en estudiantes.csv"))
                      /\ UNCHANGED raised
                 ELSE IF r.type # "dict"
                 THEN Except(c, NoGet)
                 ELSE IF r.status = <<"error">>
                 THEN /\ Return(c, Error("Fallo validacion NRC: " \o Str(r.message)))
                      /\ UNCHANGED raised
                 ELSE IF r.status = <<"not_found">>
                 THEN /\ Return(c, Error("NRC no encontrado: " \o materia))
                      /\ UNCHANGED raised
                 ELSE Goto(c, "roster") /\ UNCHANGED <<resp, raised>>
    /\ UNCHANGED <<deployment, shared, parts, nombre_canonico, records,
                   history_kept>>
    /\ catalog' = [catalog EXCEPT ![c] = ""]

\* the lookup returns and handle_agregar looks at nrc_resp; .get on a value
\* that is no dict raises, and handle_client turns that into an error reply
handle_agregar_nrc(c) ==
    /\ deployment = "con_hilos"
    /\ pc[c] = "nrc_wait"
    /\ \E outcome \in LookupOutcomes(c) :
          LET r == consultar_nrc(outcome)
              materia == P(c)[4]
          IN  /\ nrc_resp' = [nrc_resp EXCEPT ![c] = r]
              /\ IF r.type # "dict"
                 THEN Except(c, NoGet)
                 ELSE IF r.status = <<"error">>
                 THEN /\ Return(c, Error("Fallo validacion NRC: " \o Str(r.message)))
                      /\ UNCHANGED raised
                 ELSE IF r.status = <<"not_found">>
                 THEN /\ Return(c, Error("NRC no encontrado: " \o materia))
                      /\ UNCHANGED raised
                 ELSE Goto(c, "roster") /\ UNCHANGED <<resp, raised>>
    /\ UNCHANGED <<deployment, shared, parts, nombre_canonico, records,
                   history_kept>>
    /\ catalog' = [catalog EXCEPT ![c] = ""]

\* handle_agregar reading the name without rejecting a missing id
handle_agregar_roster_unchecked(c) ==
    /\ deployment = "con_hilos"
    /\ pc[c] = "roster"
    /\ LET n == get_estudiante_nombre(estudiantes, P(c)[2])
       IN  nombre_canonico' = [nombre_canonico EXCEPT ![c] = IF n = <<>> THEN <<"">> ELSE n]
    /\ Goto(c, "lock")
    /\ UNCHANGED <<deployment, shared, parts, nrc_resp, records, resp, history>>

\* handle_agregar: the roster check, outside the guard
handle_agregar_roster(c) ==
    /\ deployment = "con_hilos"
    /\ pc[c] = "roster"
    /\ LET n == get_estudiante_nombre(estudiantes, P(c)[2])
       IN  /\ nombre_canonico' = [nombre_canonico EXCEPT ![c] = n]
           /\ IF n = <<>>
              THEN Return(c, Error("ID_Estudiante no encontrado en estudiantes.csv"))
              ELSE Goto(c, "lock") /\ UNCHANGED resp
    /\ UNCHANGED <<deployment, shared, parts, nrc_resp, records, history>>

\* the four other handlers up to "with CSV_LOCK": the argument count
handle_buscar(c) ==
    /\ deployment = "con_hilos"
    /\ pc[c] = "dispatch"
    /\ Cmd(c) = "BUSCAR"
    /\ IF Len(P(c)) # 2
       THEN Return(c, Error("Formato invalido para BUSCAR"))
       ELSE Goto(c, "lock") /\ UNCHANGED resp
    /\ UNCHANGED <<deployment, shared, parts, nrc_resp, nombre_canonico, records,
                   history>>

handle_actualizar(c) ==
    /\ deployment = "con_hilos"
    /\ pc[c] = "dispatch"
    /\ Cmd(c) = "ACTUALIZAR"
    /\ IF Len(P(c)) \notin {3, 4}
       THEN Return(c, Error("Formato invalido para ACTUALIZAR (use ID|nueva o ID|Materia|nueva)"))
       ELSE Goto(c, "lock") /\ UNCHANGED resp
    /\ UNCHANGED <<deployment, shared, parts, nrc_resp, nombre_canonico, records,
                   history>>

\* handle_listar without its argument count check
handle_listar_arity_unchecked(c) ==
    /\ deployment = "con_hilos"
    /\ pc[c] = "dispatch"
    /\ Cmd(c) = "LISTAR"
    /\ Goto(c, "lock")
    /\ UNCHANGED <<deployment, shared, parts, nrc_resp, nombre_canonico, records,
                   resp, history>>

handle_listar(c) ==
    /\ deployment = "con_hilos"
    /\ pc[c] = "dispatch"
    /\ Cmd(c) = "LISTAR"
    /\ IF Len(P(c)) # 1
       THEN Return(c, Error("Formato invalido para LISTAR"))
       ELSE Goto(c, "lock") /\ UNCHANGED resp
    /\ UNCHANGED <<deployment, shared, parts, nrc_resp, nombre_canonico, records,
                   history>>

handle_eliminar(c) ==
    /\ deployment = "con_hilos"
    /\ pc[c] = "dispatch"
    /\ Cmd(c) = "ELIMINAR"
    /\ IF Len(P(c)) \notin {2, 3}
       THEN Return(c, Error("Formato invalido para ELIMINAR (use ID o ID|Materia)"))
       ELSE Goto(c, "lock") /\ UNCHANGED resp
    /\ UNCHANGED <<deployment, shared, parts, nrc_resp, nombre_canonico, records,
                   history>>

Section(c, recs) ==
    CASE Cmd(c) = "AGREGAR" -> handle_agregar_section(P(c), nombre_canonico[c], recs)
      [] Cmd(c) = "BUSCAR" -> handle_buscar_section(P(c), recs)
      [] Cmd(c) = "ACTUALIZAR" -> handle_actualizar_section(P(c), recs)
      [] Cmd(c) = "LISTAR" -> handle_listar_section(P(c), recs)
      [] Cmd(c) = "ELIMINAR" -> handle_eliminar_section(P(c), recs)

\* "with CSV_LOCK:" is entered, then ensure_csv_exists, load_records and the
\* handler's work on the loaded records; every path that does not persist
\* leaves the with-block here.  History: the same handler run in one piece on
\* seq_store, at the moment the guard is acquired.
LoadStep(c, out) ==
    /\ LockFree(CSV_LOCK)
    /\ records' = [records EXCEPT ![c] = out.records]
    /\ resp' = [resp EXCEPT ![c] = out.resp]
    /\ Goto(c, out.next)
    /\ CSV_LOCK' = IF out.next = "save" THEN CSV_LOCK \cup {c} ELSE CSV_LOCK
    /\ LET ref == Section(c, seq_store)
       IN  /\ seq_out' = [seq_out EXCEPT ![c] = ref]
           /\ seq_store' = IF ref.next = "save" THEN ref.records ELSE seq_store
    /\ UNCHANGED <<deployment, csv, estudiantes, parts, nrc_resp, nombre_canonico,
                   store0, never_enrolled, written_before, received, raised,
                   catalog>>

handle_agregar_load(c) ==
    /\ deployment = "con_hilos" /\ pc[c] = "lock" /\ Cmd(c) = "AGREGAR"
    /\ LoadStep(c, handle_agregar_section(P(c), nombre_canonico[c],
                                          load_records(ensure_csv_exists(csv))))

handle_buscar_load(c) ==
    /\ deployment = "con_hilos" /\ pc[c] = "lock" /\ Cmd(c) = "BUSCAR"
    /\ LoadStep(c, handle_buscar_section(P(c), load_records(ensure_csv_exists(csv))))

handle_actualizar_load(c) ==
    /\ deployment = "con_hilos" /\ pc[c] = "lock" /\ Cmd(c) = "ACTUALIZAR"
    /\ LoadStep(c, handle_actualizar_section(P(c), load_records(ensure_csv_exists(csv))))

handle_listar_load(c) ==
    /\ deployment = "con_hilos" /\ pc[c] = "lock" /\ Cmd(c) = "LISTAR"
    /\ LoadStep(c, handle_listar_section(P(c), load_records(ensure_csv_exists(csv))))

handle_eliminar_load(c) ==
    /\ deployment = "con_hilos" /\ pc[c] = "lock" /\ Cmd(c) = "ELIMINAR"
    /\ LoadStep(c, handle_eliminar_section(P(c), load_records(ensure_csv_exists(csv))))

\* a handler that leaves the guard before it persists
save_open_unguarded(c) ==
    /\ deployment = "con_hilos"
    /\ pc[c] = "save"
    /\ csv' = EmptyFile
    /\ CSV_LOCK' = CSV_LOCK \ {c}
    /\ Goto(c, "write")
    /\ UNCHANGED <<deployment, estudiantes, parts, nrc_resp,
                   nombre_canonico, records, resp, history>>

\* save_records: open(..., "w") truncates the file
save_open(c) ==
    /\ deployment = "con_hilos"
    /\ pc[c] = "save"
    /\ csv' = EmptyFile
    /\ Goto(c, "write")
    /\ UNCHANGED <<deployment, estudiantes, CSV_LOCK, parts, nrc_resp,
                   nombre_canonico, records, resp, history>>

\* save_records: the header and the rows are written and the file closed;
\* the handler then leaves the with-block and returns
save_write(c) ==
    /\ deployment = "con_hilos"
    /\ pc[c] = "write"
    /\ csv' = save_records(records[c])
    /\ CSV_LOCK' = CSV_LOCK \ {c}
    /\ Goto(c, "reply")
    /\ UNCHANGED <<deployment, estudiantes, parts, nrc_resp, nombre_canonico,
                   records, resp, history>>

\* handle_buscar after the with-block: the roster join
handle_buscar_enrich(c) ==
    /\ deployment = "con_hilos" /\ pc[c] = "est" /\ Cmd(c) = "BUSCAR"
    /\ Return(c, handle_buscar_join(P(c), records[c], estudiantes))
    /\ UNCHANGED <<deployment, shared, parts, nrc_resp, nombre_canonico, records,
                   history>>

handle_listar_enrich(c) ==
    /\ deployment = "con_hilos" /\ pc[c] = "est" /\ Cmd(c) = "LISTAR"
    /\ Return(c, handle_listar_join(records[c], estudiantes))
    /\ UNCHANGED <<deployment, shared, parts, nrc_resp, nombre_canonico, records,
                   history>>

\* handle_client: the reply is sent and the connection closed; the thread's
\* locals are gone
handle_client_send(c) ==
    /\ deployment = "con_hilos"
    /\ pc[c] = "reply"
    /\ Goto(c, "closed")
    /\ nrc_resp' = [nrc_resp EXCEPT ![c] = NoNrc]
    /\ nombre_canonico' = [nombre_canonico EXCEPT ![c] = <<>>]
    /\ records' = [records EXCEPT ![c] = <<>>]
    /\ UNCHANGED <<deployment, shared, parts, resp, history>>

(* ------------------------- the outside party -------------------------- *)

\* estudiantes.csv is edited by someone else: the server only reads it
RosterChange ==
    /\ \E est \in Rosters \ {estudiantes} : estudiantes' = est
    /\ never_enrolled' = never_enrolled \ DOMAIN estudiantes'
    /\ UNCHANGED <<deployment, csv, CSV_LOCK, pc, parts, nrc_resp, nombre_canonico,
                   records, resp, seq_store, seq_out, store0, written_before,
                   received, raised, catalog>>

(* ------------------ the sequential server (sin_hilos) ----------------- *)

\* one thread: the handler's load, work and save_records happen with no
\* other request in between
StoreStep(c, out) ==
    /\ csv' = IF out.next = "save" THEN save_records(out.records) ELSE csv
    /\ IF out.next = "est"
       THEN /\ records' = [records EXCEPT ![c] = out.records]
            /\ Goto(c, "est")
            /\ UNCHANGED resp
       ELSE /\ Return(c, out.resp)
            /\ UNCHANGED records
    /\ UNCHANGED <<deployment, estudiantes, CSV_LOCK, parts, nrc_resp,
                   nombre_canonico, history>>

\* a Listener that accepts while the previous connection is still served
seq_accept_early(c) ==
    /\ deployment = "sin_hilos"
    /\ pc[c] = "idle"
    /\ \A d \in Conn : d < c => pc[d] # "idle"
    /\ Goto(c, "await_line")
    /\ UNCHANGED <<deployment, shared, parts, nrc_resp, nombre_canonico, records,
                   resp, history>>

\* serve_forever: the next accept comes after the previous connection is closed
seq_accept(c) ==
    /\ deployment = "sin_hilos"
    /\ pc[c] = "idle"
    /\ \A d \in Conn \ {c} : pc[d] \in {"idle", "closed"}
    /\ \A d \in Conn : d < c => pc[d] # "idle"
    /\ Goto(c, "await_line")
    /\ UNCHANGED <<deployment, shared, parts, nrc_resp, nombre_canonico, records,
                   resp, history>>

seq_recv(c) ==
    /\ deployment = "sin_hilos"
    /\ pc[c] = "await_line"
    /\ \/ \E data \in WireData :
             /\ received' = [received EXCEPT ![c] = data]
             /\ UNCHANGED <<resp, raised>>
             /\ IF data = <<>>
                THEN Goto(c, "closed") /\ UNCHANGED <<parts, written_before>>
                ELSE /\ Goto(c, "dispatch")
                     /\ parts' = [parts EXCEPT ![c] = Parts(recv_line(data))]
                     /\ written_before' =
                           [written_before EXCEPT ![c] = HandlerWrote]
       \/ \* conn.recv raises: the except branch builds the reply
          /\ Except(c, ConnectionReset)
          /\ UNCHANGED <<parts, written_before, received>>
    /\ UNCHANGED <<deployment, shared, nrc_resp, nombre_canonico, records,
                   seq_store, seq_out, store0, never_enrolled, catalog>>

seq_process_command(c) ==
    /\ deployment = "sin_hilos"
    /\ pc[c] = "dispatch"
    /\ Cmd(c) \notin {"AGREGAR", "BUSCAR", "ACTUALIZAR", "LISTAR", "ELIMINAR"}
    /\ IF P(c) = <<>>
       THEN Return(c, Error("Comando vacio"))
       ELSE Return(c, Error("Comando desconocido: " \o Cmd(c)))
    /\ UNCHANGED <<deployment, shared, parts, nrc_resp, nombre_canonico, records,
                   history>>

\* handle_agregar: argument count, empty id, roster check; no catalog lookup
seq_handle_agregar(c) ==
    /\ deployment = "sin_hilos"
    /\ pc[c] = "dispatch"
    /\ Cmd(c) = "AGREGAR"
    /\ IF Len(P(c)) # 4
       THEN /\ Return(c, Error("Formato invalido para AGREGAR. Usa: AGREGAR|ID|Materia|Calificacion"))
            /\ UNCHANGED nombre_canonico
       ELSE IF P(c)[2] = ""
       THEN /\ Return(c, Error("ID_Estudiante vacio"))
            /\ UNCHANGED nombre_canonico
       ELSE LET n == get_estudiante_nombre(estudiantes, P(c)[2])
            IN  /\ nombre_canonico' = [nombre_canonico EXCEPT ![c] = n]
                /\ IF n = <<>>
                   THEN Return(c, Error("ID_Estudiante no encontrado en estudiantes.csv"))
                   ELSE Goto(c, "load") /\ UNCHANGED resp
    /\ UNCHANGED <<deployment, shared, parts, nrc_resp, records, history>>

\* handle_agregar: load_records, the uniqueness check, save_records
seq_handle_agregar_store(c) ==
    /\ deployment = "sin_hilos"
    /\ pc[c] = "load"
    /\ StoreStep(c, seq_handle_agregar_section(P(c), nombre_canonico[c],
                        load_records(ensure_csv_exists(csv))))

seq_handle_buscar(c) ==
    /\ deployment = "sin_hilos"
    /\ pc[c] = "dispatch"
    /\ Cmd(c) = "BUSCAR"
    /\ IF Len(P(c)) # 2
       THEN /\ Return(c, Error("Formato invalido para BUSCAR"))
            /\ UNCHANGED <<deployment, shared, parts, nrc_resp, nombre_canonico,
                           records, history>>
       ELSE StoreStep(c, handle_buscar_section(P(c), load_records(ensure_csv_exists(csv))))

seq_handle_buscar_enrich(c) ==
    /\ deployment = "sin_hilos" /\ pc[c] = "est" /\ Cmd(c) = "BUSCAR"
    /\ Return(c, handle_buscar_join(P(c), records[c], estudiantes))
    /\ UNCHANGED <<deployment, shared, parts, nrc_resp, nombre_canonico, records,
                   history>>

seq_handle_actualizar(c) ==
    /\ deployment = "sin_hilos"
    /\ pc[c] = "dispatch"
    /\ Cmd(c) = "ACTUALIZAR"
    /\ IF Len(P(c)) \notin {3, 4}
       THEN /\ Return(c, Error("Formato invalido para ACTUALIZAR (use ID|nueva o ID|Materia|nueva)"))
            /\ UNCHANGED <<deployment, shared, parts, nrc_resp, nombre_canonico,
                           records, history>>
       ELSE StoreStep(c, handle_actualizar_section(P(c), load_records(ensure_csv_exists(csv))))

seq_handle_listar(c) ==
    /\ deployment = "sin_hilos"
    /\ pc[c] = "dispatch"
    /\ Cmd(c) = "LISTAR"
    /\ IF Len(P(c)) # 1
       THEN /\ Return(c, Error("Formato invalido para LISTAR"))
            /\ UNCHANGED <<deployment, shared, parts, nrc_resp, nombre_canonico,
                           records, history>>
       ELSE StoreStep(c, handle_listar_section(P(c), load_records(ensure_csv_exists(csv))))

seq_handle_listar_enrich(c) ==
    /\ deployment = "sin_hilos" /\ pc[c] = "est" /\ Cmd(c) = "LISTAR"
    /\ Return(c, handle_listar_join(records[c], estudiantes))
    /\ UNCHANGED <<deployment, shared, parts, nrc_resp, nombre_canonico, records,
                   history>>

seq_handle_eliminar(c) ==
    /\ deployment = "sin_hilos"
    /\ pc[c] = "dispatch"
    /\ Cmd(c) = "ELIMINAR"
    /\ IF Len(P(c)) \notin {2, 3}
       THEN /\ Return(c, Error("Formato invalido para ELIMINAR (use ID o ID|Materia)"))
            /\ UNCHANGED <<deployment, shared, parts, nrc_resp, nombre_canonico,
                           records, history>>
       ELSE StoreStep(c, handle_eliminar_section(P(c), load_records(ensure_csv_exists(csv))))

\* serve_forever: the reply is sent and the connection closed
seq_send(c) ==
    /\ deployment = "sin_hilos"
    /\ pc[c] = "reply"
    /\ Goto(c, "closed")
    /\ nrc_resp' = [nrc_resp EXCEPT ![c] = NoNrc]
    /\ nombre_canonico' = [nombre_canonico EXCEPT ![c] = <<>>]
    /\ records' = [records EXCEPT ![c] = <<>>]
    /\ UNCHANGED <<deployment, shared, parts, resp, history>>

(* --------------------------- specification ---------------------------- *)

Next ==
    \/ \E c \in Conn :
          \/ Accept(c)
          \/ handle_client_recv(c)
          \/ process_command(c)
          \/ handle_agregar(c)
          \/ handle_agregar_nrc(c)
          \/ handle_agregar_roster(c)
          \/ handle_buscar(c)
          \/ handle_actualizar(c)
          \/ handle_listar(c)
          \/ handle_eliminar(c)
          \/ handle_agregar_load(c)
          \/ handle_buscar_load(c)
          \/ handle_actualizar_load(c)
          \/ handle_listar_load(c)
          \/ handle_eliminar_load(c)
          \/ save_open(c)
          \/ save_write(c)
          \/ handle_buscar_enrich(c)
          \/ handle_listar_enrich(c)
          \/ handle_client_send(c)
          \/ seq_accept(c)
          \/ seq_recv(c)
          \/ seq_process_command(c)
          \/ seq_handle_agregar(c)
          \/ seq_handle_agregar_store(c)
          \/ seq_handle_buscar(c)
          \/ seq_handle_buscar_enrich(c)
          \/ seq_handle_actualizar(c)
          \/ seq_handle_listar(c)
          \/ seq_handle_listar_enrich(c)
          \/ seq_handle_eliminar(c)
          \/ seq_send(c)
    \/ RosterChange

Spec == Init /\ [][Next]_vars

(* ------------------- the servers with a failing disk ------------------ *)

\* a guard taken with acquire() and released only at the end of the section:
\* load_records raises and the guard stays held
load_records_raises_holding(c) ==
    /\ deployment = "con_hilos"
    /\ pc[c] = "lock"
    /\ LockFree(CSV_LOCK)
    /\ CSV_LOCK' = CSV_LOCK \cup {c}
    /\ Except(c, TooManyFiles)
    /\ UNCHANGED <<deployment, csv, estudiantes, parts, nrc_resp, nombre_canonico,
                   records, history_kept, catalog>>

\* "with CSV_LOCK:" is entered and load_records raises: the guard is released
\* on the way out of the with-block and handle_client's except branch builds
\* the reply
load_records_raises(c) ==
    /\ deployment = "con_hilos"
    /\ pc[c] = "lock"
    /\ LockFree(CSV_LOCK)
    /\ Except(c, TooManyFiles)
    /\ UNCHANGED <<deployment, shared, parts, nrc_resp, nombre_canonico, records,
                   history_kept, catalog>>

\* load_records raises in a handler of the sequential server: serve_forever's
\* except branch builds the reply
seq_load_records_raises(c) ==
    /\ deployment = "sin_hilos"
    /\ \/ pc[c] = "load"
       \/ /\ pc[c] = "dispatch"
          /\ \/ Cmd(c) = "BUSCAR" /\ Len(P(c)) = 2
             \/ Cmd(c) = "ACTUALIZAR" /\ Len(P(c)) \in {3, 4}
             \/ Cmd(c) = "LISTAR" /\ Len(P(c)) = 1
             \/ Cmd(c) = "ELIMINAR" /\ Len(P(c)) \in {2, 3}
    /\ Except(c, TooManyFiles)
    /\ UNCHANGED <<deployment, shared, parts, nrc_resp, nombre_canonico, records,
                   history_kept, catalog>>

NextFaults ==
    \/ Next
    \/ \E c \in Conn : load_records_raises(c)
    \/ \E c \in Conn : seq_load_records_raises(c)

SpecFaults == Init /\ [][NextFaults]_vars

(* ------------- the threaded server under fair scheduling -------------- *)

\* the threaded server started on a Store with one record and a roster that
\* has both ids and is left alone
InitLive ==
    /\ Init
    /\ deployment = "con_hilos"
    /\ csv = save_records(<<Row("S1", "C1", "G0")>>)
    /\ estudiantes = [S1 |-> "Ana", S2 |-> "Luis"]

\* the steps of worker c after its line is received, but the lookup's return
Work(c) ==
    \/ process_command(c)
    \/ handle_agregar(c)
    \/ handle_agregar_roster(c)
    \/ handle_buscar(c)
    \/ handle_actualizar(c)
    \/ handle_listar(c)
    \/ handle_eliminar(c)
    \/ handle_buscar_enrich(c)
    \/ handle_listar_enrich(c)

\* worker c enters "with CSV_LOCK"
Acquire(c) ==
    \/ handle_agregar_load(c)
    \/ handle_buscar_load(c)
    \/ handle_actualizar_load(c)
    \/ handle_listar_load(c)
    \/ handle_eliminar_load(c)
    \/ load_records_raises(c)

\* the 3 seconds of a lookup on a silent service are over
nrc_timeout(c) == catalog[c] = "silent" /\ handle_agregar_nrc(c)

NextLive ==
    \/ \E c \in Conn : Accept(c)
    \/ \E c \in Conn : handle_client_recv(c)
    \/ \E c \in Conn : Work(c)
    \/ \E c \in Conn : handle_agregar_nrc(c)
    \/ \E c \in Conn : Acquire(c)
    \/ \E c \in Conn : save_open(c)
    \/ \E c \in Conn : save_write(c)
    \/ \E c \in Conn : handle_client_send(c)

\* every thread that can run does run, and the socket timeout expires; a
\* peer may never send its line and a service that answers may take forever
FairLive ==
    \A c \in Conn :
        /\ WF_vars(Work(c))
        /\ WF_vars(nrc_timeout(c))
        /\ WF_vars(Acquire(c))
        /\ WF_vars(save_open(c))
        /\ WF_vars(save_write(c))
        /\ WF_vars(handle_client_send(c))

SpecLive == InitLive /\ [][NextLive]_vars /\ FairLive

\* the catalog service that answers does answer: every lookup returns, with
\* the service's line or with the socket's timeout
FairLookup == \A c \in Conn : WF_vars(handle_agregar_nrc(c))

SpecLiveLookup == InitLive /\ [][NextLive]_vars /\ FairLive /\ FairLookup

(* --------------------- the servers with lost replies ------------------ *)

\* a worker that undoes what the Store got since the start when its reply
\* cannot be delivered
sendall_raises_rollback(c) ==
    /\ pc[c] = "reply"
    /\ raised' = [raised EXCEPT ![c] = "[Errno 32] Broken pipe"]
    /\ csv' = save_records(store0)
    /\ Goto(c, "closed")
    /\ nrc_resp' = [nrc_resp EXCEPT ![c] = NoNrc]
    /\ nombre_canonico' = [nombre_canonico EXCEPT ![c] = <<>>]
    /\ records' = [records EXCEPT ![c] = <<>>]
    /\ UNCHANGED <<deployment, estudiantes, CSV_LOCK, parts, resp, history_kept,
                   catalog>>

\* conn.sendall raises, in either server, because the peer is gone: the
\* except branch logs str(e) and "with conn" closes the connection
sendall_raises(c) ==
    /\ pc[c] = "reply"
    /\ raised' = [raised EXCEPT ![c] = "[Errno 32] Broken pipe"]
    /\ Goto(c, "closed")
    /\ nrc_resp' = [nrc_resp EXCEPT ![c] = NoNrc]
    /\ nombre_canonico' = [nombre_canonico EXCEPT ![c] = <<>>]
    /\ records' = [records EXCEPT ![c] = <<>>]
    /\ UNCHANGED <<deployment, shared, parts, resp, history_kept, catalog>>

SpecLostReply == Init /\ [][Next \/ \E c \in Conn : sendall_raises(c)]_vars

(* ------------------ the servers with one client at a time ------------ *)

\* the peer of c sends its line when no other request is being served
recv_one_at_a_time(c) ==
    /\ \A d \in Conn \ {c} : pc[d] \in {"idle", "await_line", "closed"}
    /\ handle_client_recv(c) \/ seq_recv(c)

NextOneAtATime ==
    \/ \E c \in Conn : Accept(c) \/ seq_accept(c)
    \/ \E c \in Conn : recv_one_at_a_time(c)
    \/ \E c \in Conn : Work(c) \/ handle_agregar_nrc(c)
    \/ \E c \in Conn :
          \/ handle_agregar_load(c)
          \/ handle_buscar_load(c)
          \/ handle_actualizar_load(c)
          \/ handle_listar_load(c)
          \/ handle_eliminar_load(c)
    \/ \E c \in Conn : save_open(c) \/ save_write(c) \/ handle_client_send(c)
    \/ \E c \in Conn :
          \/ seq_process_command(c)
          \/ seq_handle_agregar(c)
          \/ seq_handle_agregar_store(c)
          \/ seq_handle_buscar(c)
          \/ seq_handle_buscar_enrich(c)
          \/ seq_handle_actualizar(c)
          \/ seq_handle_listar(c)
          \/ seq_handle_listar_enrich(c)
          \/ seq_handle_eliminar(c)
          \/ seq_send(c)
    \/ RosterChange

SpecOneAtATime == Init /\ [][NextOneAtATime]_vars

(* ------------------------------- claims ------------------------------- *)

Threaded == deployment = "con_hilos"

Stored == load_records(csv)

PairCount(recs, student_id, materia) ==
    Cardinality({i \in DOMAIN recs : Matches(recs[i], student_id, materia)})

Returned(c) == pc[c] \in {"reply", "closed"}

DupError == Error("La nota para ese ID y Materia ya existe")

\* the connection ran a handler's Store section
EnteredStore(c) == seq_out[c].next # "(none)"

\* C1: in the threaded server no two records of the Store share
\* (ID_Estudiante, Materia), in any state, whatever the interleaving of the
\* AGREGAR, ACTUALIZAR and ELIMINAR requests.
C1_Uniqueness == Threaded => NoDuplicates(Stored)

\* an insert has succeeded beside another connection's update or delete
C1_Witness ==
    /\ Threaded
    /\ \E c, d \in Conn :
          /\ c # d
          /\ pc[c] = "reply" /\ Cmd(c) = "AGREGAR" /\ resp[c].status = "ok"
          /\ Returned(d) /\ Cmd(d) \in {"ACTUALIZAR", "ELIMINAR"}
          /\ resp[d].status = "ok"
          /\ Len(Stored) >= 1

\* connection e has a request that adds or removes records of student_id
Touches(e, student_id) ==
    /\ pc[e] \notin {"idle", "await_line"}
    /\ Cmd(e) \in {"AGREGAR", "ELIMINAR"}
    /\ Len(parts[e]) >= 2
    /\ parts[e][2] = student_id

\* c and d are two finished inserts of one pair that both got past the catalog
\* and the roster, the pair was not stored at start and no third request adds
\* or removes records of that student
RacePair(c, d) ==
    /\ Threaded
    /\ c # d
    /\ Returned(c) /\ Returned(d)
    /\ Cmd(c) = "AGREGAR" /\ Cmd(d) = "AGREGAR"
    /\ EnteredStore(c) /\ EnteredStore(d)
    /\ parts[c][2] = parts[d][2] /\ parts[c][4] = parts[d][4]
    /\ PairCount(store0, parts[c][2], parts[c][4]) = 0
    /\ \A e \in Conn \ {c, d} : ~Touches(e, parts[c][2])

\* C2: of two concurrent inserts of the same pair, exactly one replies ok and
\* the other replies the duplicate error, and the Store then holds exactly one
\* record for the pair.
C2_ConcurrentRace ==
    \A c, d \in Conn :
        RacePair(c, d) =>
            /\ \/ resp[c].status = "ok" /\ resp[d] = DupError
               \/ resp[d].status = "ok" /\ resp[c] = DupError
            /\ CSV_LOCK = {} =>
                  PairCount(Stored, parts[c][2], parts[c][4]) = 1

C2_Witness ==
    \E c, d \in Conn :
        /\ RacePair(c, d)
        /\ pc[c] = "closed" /\ pc[d] = "closed"
        /\ resp[d] = DupError
        /\ c < d

InSection(c) == pc[c] \in {"save", "write"}

\* c loads the Store in this step
LoadsStore(c) == pc[c] = "lock" /\ pc'[c] # "lock"

\* c truncates or writes the Store in this step
PersistsStore(c) == InSection(c) /\ pc'[c] # pc[c]

C3_Inv ==
    Threaded =>
        /\ Cardinality(CSV_LOCK) <= 1
        /\ \A c \in Conn : InSection(c) <=> c \in CSV_LOCK

C3_Act ==
    Threaded =>
        /\ \A c \in Conn :
              (LoadsStore(c) \/ PersistsStore(c)) =>
                  \A d \in Conn \ {c} : ~InSection(d)
        /\ csv' # csv => \E c \in CSV_LOCK : PersistsStore(c)

\* C3: at most one worker holds the guard; a worker between its load and its
\* persist holds it all the time; no other worker loads or persists the Store
\* in between, and the Store file changes only in a step of the holder.
C3_MutualExclusion == []C3_Inv /\ [][C3_Act]_vars

\* a reader waits for the guard while a writer has truncated the file
C3_Witness ==
    /\ Threaded
    /\ \E c, d \in Conn :
          /\ pc[c] = "write" /\ c \in CSV_LOCK /\ csv = EmptyFile
          /\ pc[d] = "lock" /\ Cmd(d) \in {"BUSCAR", "LISTAR"}

\* the rows of a reply without the Nombre the roster join added
StripNombre(rows) ==
    [i \in DOMAIN rows |-> [k \in DOMAIN rows[i] \ {"Nombre"} |-> rows[i][k]]]

\* what c has so far is what its handler gives when the handlers are run one
\* at a time, in the order the guard was acquired
AgreesWithSequential(c) ==
    /\ pc[c] \in {"save", "write", "est"} =>
          records[c] = seq_out[c].records /\ resp[c] = seq_out[c].resp
    /\ Returned(c) =>
          IF seq_out[c].next = "est"
          THEN /\ resp[c].status = "ok"
               /\ StripNombre(resp[c].data) = seq_out[c].records
          ELSE resp[c] = seq_out[c].resp

\* C4: the replies and the Store of the threaded server are those of the same
\* requests handled one after the other in the order the guard was acquired.
C4_TotalOrder ==
    Threaded =>
        /\ CSV_LOCK = {} => Stored = seq_store
        /\ \A c \in Conn : EnteredStore(c) => AgreesWithSequential(c)

\* two requests that both changed the Store have returned
C4_Witness ==
    /\ Threaded
    /\ CSV_LOCK = {}
    /\ \E c, d \in Conn :
          /\ c # d
          /\ pc[c] = "closed" /\ pc[d] = "closed"
          /\ seq_out[c].next = "save" /\ seq_out[d].next = "save"
          /\ Cmd(c) = "ACTUALIZAR" /\ Cmd(d) = "ACTUALIZAR"

\* C5: no worker holds the guard while its catalog lookup is in progress, and
\* an insert that holds the guard has its lookup's result.
C5_LookupBeforeGuard ==
    Threaded =>
        \A c \in Conn :
            /\ pc[c] = "nrc_wait" => c \notin CSV_LOCK
            /\ (c \in CSV_LOCK /\ Cmd(c) = "AGREGAR") => nrc_resp[c].type = "dict"

\* a lookup is in progress while another worker is inside the guard
C5_Witness ==
    /\ Threaded
    /\ \E c, d \in Conn :
          /\ pc[c] = "nrc_wait"
          /\ d \in CSV_LOCK /\ InSection(d)

InsertReturned(c) == Cmd(c) = "AGREGAR" /\ pc[c] = "reply"

\* C6: in both servers an insert replies ok only after a catalog lookup made
\* for it, and never when that lookup reported not-found or failed.
C6_CatalogGate ==
    \A c \in Conn :
        (InsertReturned(c) /\ resp[c].status = "ok") =>
            /\ nrc_resp[c].type = "dict"
            /\ nrc_resp[c].status \notin {<<"not_found">>, <<"error">>}

\* C7: in the threaded server an insert replies ok only if its own lookup
\* returned status ok.
C7_OkOnlyIfFound ==
    Threaded =>
        \A c \in Conn :
            (InsertReturned(c) /\ resp[c].status = "ok") =>
                nrc_resp[c].status = <<"ok">>

\* the insert was rejected because the catalog reported not-found
NotFoundRejected(c) ==
    /\ InsertReturned(c)
    /\ nrc_resp[c].type = "dict" /\ nrc_resp[c].status = <<"not_found">>

\* the insert was rejected because the lookup failed: no connection, timeout,
\* no answer, an answer that is no JSON or no dict, or the service's error
LookupFailed(c) ==
    /\ InsertReturned(c)
    /\ nrc_resp[c].type = "list" \/ nrc_resp[c].status = <<"error">>

\* C8: a not-found rejection and a failed-lookup rejection are both status
\* error and never carry the same message.
C8_DistinctCauses ==
    \A c, d \in Conn :
        (NotFoundRejected(c) /\ LookupFailed(d)) =>
            /\ resp[c].status = "error" /\ resp[d].status = "error"
            /\ resp[c].message # resp[d].message

C8_Witness ==
    \E c, d \in Conn :
        /\ NotFoundRejected(c) /\ LookupFailed(d)
        /\ parts[c] = parts[d]
        /\ nrc_resp[d].message = <<"NRC service error: timed out">>

\* C9: in both servers an insert for an id that no roster has had never
\* replies ok, and the Store holds no record of such an id that was not there
\* at start, whatever the catalog answered.
C9_ReferentialGate ==
    /\ \A c \in Conn :
          (Cmd(c) = "AGREGAR" /\ Returned(c) /\ Len(parts[c]) >= 2
              /\ parts[c][2] \in never_enrolled) => resp[c].status # "ok"
    /\ \A i \in DOMAIN Stored :
          Stored[i]["ID_Estudiante"] \in never_enrolled =>
              PairCount(store0, Stored[i]["ID_Estudiante"], Stored[i]["Materia"]) = 1

\* the catalog found the subject and the insert is rejected for the roster
C9_Witness ==
    \E c \in Conn :
        /\ InsertReturned(c)
        /\ parts[c][2] \in never_enrolled
        /\ nrc_resp[c].status = <<"ok">>
        /\ resp[c] = Error("ID_Estudiante no encontrado en estudiantes.csv")

\* c's insert persists its new record in this step
InsertPersists(c) ==
    /\ Cmd(c) = "AGREGAR"
    /\ pc[c] \in {"write", "load"}
    /\ pc'[c] = "reply"
    /\ resp'[c].status = "ok"

\* C10: in the threaded server, at the step where an insert persists its
\* record, the record's id is in the roster.
C10_EnrolledAtInsertion ==
    [][Threaded =>
          \A c \in Conn : InsertPersists(c) => parts[c][2] \in DOMAIN estudiantes]_vars

(* ---- C11 ---- *)

\* the number of fields of a well-formed AGREGAR line in the running server
InsertArity == IF Threaded THEN 5 ELSE 4

\* c's line is an AGREGAR with the fields its server's handler takes
IsInsert(c) ==
    /\ pc[c] \notin {"idle", "await_line"}
    /\ Cmd(c) = "AGREGAR"
    /\ Len(parts[c]) = InsertArity

InsertId(c) == parts[c][2]

InsertMateria(c) == IF Threaded THEN parts[c][4] ELSE parts[c][3]

InsertGrade(c) == IF Threaded THEN parts[c][5] ELSE parts[c][4]

InsertOk(c) == IsInsert(c) /\ Returned(c) /\ resp[c].status = "ok"

\* d is an insert of the pair c's insert stored, received after c's insert
\* had returned ok, and the pair is still stored
LaterInsert(c, d) ==
    /\ c # d
    /\ InsertOk(c)
    /\ c \in written_before[d]
    /\ IsInsert(d)
    /\ InsertId(d) = InsertId(c) /\ InsertMateria(d) = InsertMateria(c)
    /\ PairCount(Stored, InsertId(c), InsertMateria(c)) >= 1

\* d's roster check passed (in the threaded server the lookup did before it)
PassedGates(d) == pc[d] = "reply" /\ nombre_canonico[d] # <<>>

\* C11 as stated: every later insert of a stored pair replies the
\* already-exists error.
C11_SecondInsertDuplicate ==
    \A c, d \in Conn :
        (LaterInsert(c, d) /\ Returned(d)) => resp[d] = DupError

C11_Inv ==
    \A c, d \in Conn :
        LaterInsert(c, d) =>
            /\ pc[d] \notin {"save", "write"}
            /\ Row(InsertId(c), InsertMateria(c), InsertGrade(c)) \in Range(Stored)
            /\ Returned(d) => resp[d].status = "error"
            /\ PassedGates(d) => resp[d] = DupError

C11_Act ==
    \A c, d \in Conn :
        (LaterInsert(c, d) /\ pc'[d] # pc[d]) => csv' = csv

\* C11 (amended): every later insert of a stored pair replies status error
\* and leaves the Store, stored grade included, as it was; the reply is the
\* already-exists error whenever the insert got past its catalog and roster
\* gates.
C11_SecondInsertRejected == []C11_Inv /\ [][C11_Act]_vars

\* a later insert of the stored pair with another grade got the
\* already-exists error
C11_Witness ==
    \E c, d \in Conn :
        /\ LaterInsert(c, d)
        /\ pc[d] = "reply"
        /\ resp[d] = DupError
        /\ InsertGrade(d) # InsertGrade(c)

(* ---- C12 ---- *)

\* c's line is ACTUALIZAR|ID|nueva or ELIMINAR|ID
OneArgForm(c) ==
    \/ Cmd(c) = "ACTUALIZAR" /\ Len(parts[c]) = 3
    \/ Cmd(c) = "ELIMINAR" /\ Len(parts[c]) = 2

\* the number of records of recs for student_id
RecordsOf(recs, student_id) ==
    Cardinality({i \in DOMAIN recs : recs[i]["ID_Estudiante"] = student_id})

\* in this step c's handler loads the Store and works on the loaded records
RunsSection(c) ==
    IF Threaded THEN pc[c] = "lock" /\ pc'[c] # "lock"
    ELSE pc[c] = "dispatch" /\ pc'[c] # "dispatch"

AmbiguityError(c) ==
    IF Cmd(c) = "ACTUALIZAR"
    THEN Error("El ID tiene varias notas; use ACTUALIZAR|ID|Materia|nueva")
    ELSE Error("El ID tiene varias notas; especifique Materia (ELIMINAR|ID|Materia)")

\* C12: when the Store holds two or more records of the id, ACTUALIZAR|ID|nueva
\* and ELIMINAR|ID reply status error with the message that asks for the
\* Materia form, and the handler returns without writing the Store.
C12_AmbiguityRejection ==
    [][\A c \in Conn :
          (OneArgForm(c) /\ RunsSection(c) /\ RecordsOf(Stored, parts[c][2]) >= 2) =>
              /\ resp'[c] = AmbiguityError(c)
              /\ resp'[c].status = "error"
              /\ pc'[c] = "reply"
              /\ csv' = csv]_vars

\* ELIMINAR|ID was rejected while the id has two records
C12_Witness ==
    \E c \in Conn :
        /\ pc[c] = "reply"
        /\ Cmd(c) = "ELIMINAR" /\ Len(parts[c]) = 2
        /\ RecordsOf(Stored, parts[c][2]) >= 2
        /\ resp[c] = AmbiguityError(c)

\* ACTUALIZAR|ID|nueva was rejected while the id has two records
C12_UpdateRejected ==
    \E c \in Conn :
        /\ pc[c] = "reply"
        /\ Cmd(c) = "ACTUALIZAR" /\ Len(parts[c]) = 3
        /\ RecordsOf(Stored, parts[c][2]) >= 2
        /\ resp[c] = AmbiguityError(c)

(* ---- C13 ---- *)

\* the Materia of the only record recs has for student_id
SoleMateria(recs, student_id) ==
    recs[CHOOSE i \in DOMAIN recs : recs[i]["ID_Estudiante"] = student_id]["Materia"]

\* what the form with Materia of c's command, naming the only record of the
\* id, gives on the stored records
TwoArgOut(c) ==
    LET student_id == parts[c][2]
        materia == SoleMateria(Stored, student_id)
    IN  IF Cmd(c) = "ACTUALIZAR"
        THEN handle_actualizar_section(
                 <<"ACTUALIZAR", student_id, materia, parts[c][3]>>, Stored)
        ELSE handle_eliminar_section(<<"ELIMINAR", student_id, materia>>, Stored)

C13_Act ==
    \A c \in Conn :
        /\ (OneArgForm(c) /\ RunsSection(c) /\ RecordsOf(Stored, parts[c][2]) = 1) =>
              LET out == TwoArgOut(c)
              IN  /\ out.next = "save"
                  /\ resp'[c] = out.resp
                  /\ IF Threaded
                     THEN records'[c] = out.records /\ pc'[c] = "save"
                     ELSE load_records(csv') = out.records /\ pc'[c] = "reply"
        /\ (Threaded /\ pc[c] = "write" /\ pc'[c] = "reply") =>
              load_records(csv') = records[c] /\ resp'[c] = resp[c]

\* C13: when the Store holds exactly one record of the id, ACTUALIZAR|ID|nueva
\* and ELIMINAR|ID give the reply and the Store that the form naming that
\* record's Materia gives.
C13_SingleRecordEquivalence == [][C13_Act]_vars

\* ACTUALIZAR|ID|nueva changed the only record of the id and ELIMINAR|ID then
\* removed it
C13_Witness ==
    \E c, d \in Conn :
        /\ pc[c] = "closed" /\ pc[d] = "reply"
        /\ Cmd(c) = "ACTUALIZAR" /\ Len(parts[c]) = 3 /\ resp[c].status = "ok"
        /\ Cmd(d) = "ELIMINAR" /\ Len(parts[d]) = 2 /\ resp[d].status = "ok"
        /\ c \in written_before[d]
        /\ RecordsOf(Stored, parts[d][2]) = 0

(* ---- C14 ---- *)

\* d is a BUSCAR of the id of c's request, received after c's handler had
\* returned ok, and d's handler has returned
FindAfter(c, d) ==
    /\ c # d
    /\ c \in written_before[d]
    /\ Cmd(c) \in {"AGREGAR", "ACTUALIZAR", "ELIMINAR"}
    /\ resp[c].status = "ok"
    /\ Cmd(d) = "BUSCAR" /\ Len(parts[d]) = 2
    /\ Returned(d)
    /\ parts[d][2] = parts[c][2]

\* d's reply is ok with exactly one record, of the grade given
FoundOne(d, grade) ==
    /\ resp[d].status = "ok"
    /\ Len(resp[d].data) = 1
    /\ resp[d].data[1]["Calificacion"] = grade

\* C14: with no other request about the id, a BUSCAR after a successful
\* AGREGAR into a Store without records of the id finds exactly one record
\* with the inserted grade; after a successful ACTUALIZAR of the id's only
\* record it finds the new grade; after a successful ELIMINAR of the id's only
\* record it replies not_found.
C14_ReadAfterWrite ==
    \A c, d \in Conn :
        FindAfter(c, d) =>
            /\ (IsInsert(c) /\ RecordsOf(store0, parts[c][2]) = 0) =>
                  /\ FoundOne(d, InsertGrade(c))
                  /\ resp[d].data[1]["Materia"] = InsertMateria(c)
            /\ (Cmd(c) = "ACTUALIZAR" /\ RecordsOf(store0, parts[c][2]) = 1) =>
                  FoundOne(d, parts[c][Len(parts[c])])
            /\ (Cmd(c) = "ELIMINAR" /\ RecordsOf(store0, parts[c][2]) = 1) =>
                  resp[d].status = "not_found"

\* a BUSCAR after the insert of the id's first record has returned
C14_Witness ==
    \E c, d \in Conn :
        /\ FindAfter(c, d)
        /\ IsInsert(c) /\ RecordsOf(store0, parts[c][2]) = 0
        /\ pc[d] = "closed"
        /\ FoundOne(d, InsertGrade(c))

\* a BUSCAR after the update of the id's only record has returned
C14_AfterUpdate ==
    \E c, d \in Conn :
        /\ FindAfter(c, d)
        /\ Cmd(c) = "ACTUALIZAR" /\ RecordsOf(store0, parts[c][2]) = 1
        /\ FoundOne(d, "G2")

\* a BUSCAR after the removal of the id's only record has returned
C14_AfterDelete ==
    \E c, d \in Conn :
        /\ FindAfter(c, d)
        /\ Cmd(c) = "ELIMINAR" /\ RecordsOf(store0, parts[c][2]) = 1
        /\ resp[d] = NotFound("No existe el ID")

(* ---- C15 ---- *)

\* the number of fields of c's line is one its command's handler takes
ArityOk(c) ==
    CASE Cmd(c) = "AGREGAR" -> Len(parts[c]) = InsertArity
      [] Cmd(c) = "BUSCAR" -> Len(parts[c]) = 2
      [] Cmd(c) = "ACTUALIZAR" -> Len(parts[c]) \in {3, 4}
      [] Cmd(c) = "LISTAR" -> Len(parts[c]) = 1
      [] Cmd(c) = "ELIMINAR" -> Len(parts[c]) \in {2, 3}
      [] OTHER -> FALSE

\* c's line is empty, names no command, or has a wrong number of fields
MalformedLine(c) == parts[c] = <<>> \/ ~ArityOk(c)

C15_Act ==
    \A c \in Conn :
        /\ (pc[c] = "dispatch" /\ MalformedLine(c) /\ pc'[c] # pc[c]) =>
              /\ pc'[c] = "reply"
              /\ resp'[c].status = "error"
              /\ csv' = csv
              /\ CSV_LOCK' = CSV_LOCK
              /\ nrc_resp'[c] = NoNrc
              /\ records'[c] = records[c]
              /\ seq_out'[c] = NoOut
        /\ (pc[c] = "reply" /\ MalformedLine(c) /\ pc'[c] # pc[c]) =>
              /\ pc'[c] = "closed"
              /\ csv' = csv
              /\ CSV_LOCK' = CSV_LOCK

\* C15: a dispatched line that is empty, names no known command or has a
\* wrong number of fields gets a status error reply in one step that neither
\* takes the guard, nor loads or writes the Store, nor asks the catalog.
C15_MalformedRequests == [][C15_Act]_vars

\* a known command with a wrong field count and an unknown command have both
\* been answered and the Store is the one at start
C15_Witness ==
    \E c, d \in Conn :
        /\ pc[c] = "reply" /\ pc[d] = "closed"
        /\ Cmd(c) = "ELIMINAR" /\ Len(parts[c]) = 1
        /\ resp[c].status = "error"
        /\ resp[d] = Error("Comando desconocido: HOLA")
        /\ Stored = store0

\* an empty line has been answered
C15_EmptyLine ==
    \E c \in Conn :
        pc[c] = "reply" /\ parts[c] = <<>> /\ resp[c] = Error("Comando vacio")

(* ---- C16 ---- *)

\* c's reply is the argument-count rejection of handle_agregar
InsertFormatError(c) ==
    /\ resp[c].status = "error"
    /\ resp[c].message \in
          {"Formato invalido para AGREGAR",
           "Formato invalido para AGREGAR. Usa: AGREGAR|ID|Materia|Calificacion"}

\* C16: in both servers an AGREGAR line with exactly the three fields id,
\* materia, calificacion after the command is taken by the insert handler, and
\* an AGREGAR line with any other number of fields gets the argument-count
\* rejection.
C16_InsertArity ==
    \A c \in Conn :
        (Cmd(c) = "AGREGAR" /\ Returned(c) /\ resp[c] # NoResp) =>
            IF Len(parts[c]) = 4
            THEN ~InsertFormatError(c)
            ELSE InsertFormatError(c)

(* ---- C17 ---- *)

\* the state of c's connection in the connection state machine
Phase(c) ==
    CASE pc[c] = "idle" -> "NOT_ACCEPTED"
      [] pc[c] = "await_line" -> "AWAIT_LINE"
      [] pc[c] = "reply" -> "REPLY"
      [] pc[c] = "closed" -> "CLOSED"
      [] OTHER -> "DISPATCH"

PhaseAfter(c) ==
    CASE pc'[c] = "idle" -> "NOT_ACCEPTED"
      [] pc'[c] = "await_line" -> "AWAIT_LINE"
      [] pc'[c] = "reply" -> "REPLY"
      [] pc'[c] = "closed" -> "CLOSED"
      [] OTHER -> "DISPATCH"

\* the bytes of data before its first line break, all of them when it has none
RECURSIVE BeforeBreak(_)
BeforeBreak(data) ==
    IF data = <<>> \/ Head(data) = "\n" THEN <<>>
    ELSE <<Head(data)>> \o BeforeBreak(Tail(data))

\* the transitions the connection state machine names
NamedTransitions ==
    {<<"NOT_ACCEPTED", "AWAIT_LINE">>, <<"AWAIT_LINE", "DISPATCH">>,
     <<"DISPATCH", "REPLY">>, <<"REPLY", "CLOSED">>, <<"AWAIT_LINE", "CLOSED">>}

\* what holds of c's step besides the transition it makes
C17_Step(c) ==
    \* no byte from the peer: no reply, no command
    /\ (Phase(c) = "AWAIT_LINE" /\ PhaseAfter(c) = "CLOSED") =>
          received'[c] = <<>> /\ resp'[c] = NoResp /\ parts'[c] = <<>>
    \* the command is built from the bytes before the first line break
    /\ (Phase(c) = "AWAIT_LINE" /\ PhaseAfter(c) = "DISPATCH") =>
          /\ received'[c] # <<>>
          /\ parts'[c] = Parts(BeforeBreak(received'[c]))
    \* the line is not read again, and one reply is written
    /\ Phase(c) \in {"DISPATCH", "REPLY"} =>
          parts'[c] = parts[c] /\ received'[c] = received[c]
    /\ Phase(c) = "REPLY" => resp'[c] = resp[c] /\ resp[c] # NoResp
    /\ Phase(c) = "CLOSED" => pc'[c] = pc[c] /\ resp'[c] = resp[c]

\* C17 as stated: every connection goes AWAIT_LINE, DISPATCH, REPLY, CLOSED or
\* AWAIT_LINE, CLOSED; one command from the bytes before the first line
\* break, at most one reply, nothing after CLOSED.
C17_ConnectionStateMachine ==
    [][\A c \in Conn :
          /\ PhaseAfter(c) # Phase(c) =>
                <<Phase(c), PhaseAfter(c)>> \in NamedTransitions
          /\ C17_Step(c)]_vars

\* C17 (amended): as stated, with one more path: a read that fails takes the
\* connection from AWAIT_LINE to REPLY with a status error reply and without
\* a dispatch.
C17_StateMachineWithReadFailure ==
    [][\A c \in Conn :
          /\ PhaseAfter(c) # Phase(c) =>
                \/ <<Phase(c), PhaseAfter(c)>> \in NamedTransitions
                \/ /\ Phase(c) = "AWAIT_LINE" /\ PhaseAfter(c) = "REPLY"
                   /\ resp'[c].status = "error"
                   /\ parts'[c] = <<>> /\ received'[c] = <<>>
                   /\ csv' = csv /\ CSV_LOCK' = CSV_LOCK
          /\ C17_Step(c)]_vars

\* a connection that got bytes after its first line break has been answered
\* for the first line and closed, and one that got no line break for all its
\* bytes
C17_Witness ==
    \E c, d \in Conn :
        /\ pc[c] = "closed" /\ pc[d] = "closed"
        /\ Len(received[c]) > Len(BeforeBreak(received[c])) + 1
        /\ parts[c] = <<"listar">>
        /\ resp[c].status = "ok"
        /\ received[d] # <<>> /\ BeforeBreak(received[d]) = received[d]
        /\ resp[d].status \in {"ok", "not_found"}

\* a connection whose read failed has been closed
C17_ReadFailed ==
    \E c \in Conn :
        pc[c] = "closed" /\ received[c] = <<>> /\ resp[c].status = "error"

(* ---- C18 ---- *)

\* the try block of c's unit of work catches an exception in this step
Raises(c) == raised'[c] # raised[c]

\* c's line is being read or its command dispatched
InTry(c) == pc[c] \in {"await_line", "dispatch", "nrc_wait", "roster", "lock", "load"}

\* what the unit of work of d holds
Local(d) ==
    <<pc[d], parts[d], nrc_resp[d], nombre_canonico[d], records[d], resp[d],
      raised[d]>>

\* the Listener's next accept: the lowest connection not yet accepted
NextAccept(d) == pc[d] = "idle" /\ \A e \in Conn : e < d => pc[e] # "idle"

C18_Act ==
    \A c \in Conn :
        Raises(c) =>
            /\ InTry(c) /\ raised[c] = ""
            /\ pc'[c] = "reply"
            /\ resp'[c] = Error("Excepcion: " \o raised'[c])
            /\ c \notin CSV_LOCK' /\ CSV_LOCK' = CSV_LOCK
            /\ \A d \in Conn \ {c} : Local(d)' = Local(d)

C18_Inv ==
    \A c, d \in Conn :
        raised[c] # "" =>
            /\ Returned(c) /\ resp[c].status = "error"
            /\ pc[c] = "reply" =>
                  IF Threaded THEN ENABLED handle_client_send(c)
                  ELSE ENABLED seq_send(c)
            /\ NextAccept(d) =>
                  IF Threaded THEN ENABLED Accept(d)
                  ELSE (\A e \in Conn \ {d} : pc[e] \in {"idle", "closed"})
                           => ENABLED seq_accept(d)

\* C18: in both servers an exception raised while a connection's line is
\* read or its command dispatched, inside the Store section included, becomes
\* that connection's reply with status error, which can then be sent; the
\* step holds no guard afterwards and changes nothing another connection's
\* unit of work holds, and the Listener can accept the next connection (in
\* the sequential server once the connections before it are closed).
C18_FailureContainment == []C18_Inv /\ [][C18_Act]_vars

\* load_records failed for the first connection of the sequential server and
\* the next connection got its reply ok
C18_Witness ==
    /\ ~Threaded
    /\ \E c, d \in Conn :
          /\ c < d
          /\ raised[c] = TooManyFiles /\ pc[c] = "closed"
          /\ Returned(d) /\ resp[d].status = "ok"

\* in the threaded server load_records fails for one worker while another
\* waits for the guard, and the other then persists
C18_OtherWorkerGoesOn ==
    /\ Threaded
    /\ \E c, d \in Conn :
          /\ c # d
          /\ raised[c] = TooManyFiles /\ pc[c] = "reply"
          /\ pc[d] = "write"

(* ---- C19 ---- *)

\* the keys of the reply object
Keys(r) == DOMAIN r

\* c's handler has built a reply
HasReply(c) == resp[c] # NoResp

\* C19: in both servers every reply built, for every command and outcome, has
\* a status that is ok, not_found or error; a reply with status ok has a data
\* field and a reply with status error has a message field.
C19_ReplyShape ==
    \A c \in Conn :
        HasReply(c) =>
            /\ "status" \in Keys(resp[c])
            /\ resp[c].status \in {"ok", "not_found", "error"}
            /\ resp[c].status = "ok" => "data" \in Keys(resp[c])
            /\ resp[c].status = "error" => "message" \in Keys(resp[c])

\* replies of the three statuses have been sent, one of them for an exception
C19_Witness ==
    \E c, d \in Conn :
        /\ pc[c] = "closed" /\ pc[d] = "closed"
        /\ resp[c].status = "ok" /\ Cmd(c) = "LISTAR"
        /\ resp[d].status = "error" /\ raised[d] # ""

\* a not_found reply has been sent
C19_NotFoundSent ==
    \E c \in Conn : pc[c] = "closed" /\ resp[c].status = "not_found"

(* ---- C20 ---- *)

\* c's line is a well-formed BUSCAR / LISTAR
IsFind(c) == Cmd(c) = "BUSCAR" /\ Len(parts[c]) = 2

IsList(c) == Cmd(c) = "LISTAR" /\ Len(parts[c]) = 1

\* the records of recs that c's request is about
Matching(c, recs) ==
    IF IsFind(c)
    THEN SelectSeq(recs, LAMBDA r : r["ID_Estudiante"] = parts[c][2])
    ELSE recs

\* c's handler loads the Store in this step
Loads(c) == pc[c] \in {"lock", "dispatch"} /\ pc'[c] \in {"est", "reply"}

\* c's handler joins its rows with the roster in this step
Joins(c) == pc[c] = "est" /\ pc'[c] # "est"

\* r with the name of the roster's entry for its id, when there is one
Named(r, est) ==
    IF r["ID_Estudiante"] \in DOMAIN est
    THEN WithNombre(r, est[r["ID_Estudiante"]])
    ELSE r

\* r with the name of the roster's entry for its id, when the name is not empty
NamedIfNotEmpty(r, est) ==
    IF r["ID_Estudiante"] \in DOMAIN est /\ est[r["ID_Estudiante"]] # ""
    THEN WithNombre(r, est[r["ID_Estudiante"]])
    ELSE r

\* Find and List but for the names: no error unless an exception was raised,
\* every matching record of the Store is taken, not_found only when there is
\* none
C20_Rows(c) ==
    /\ (pc'[c] = "reply" /\ pc[c] # "reply" /\ resp'[c].status = "error")
          => raised'[c] # ""
    /\ (Loads(c) /\ pc'[c] = "est") =>
          /\ records'[c] = Matching(c, Stored)
          /\ IsFind(c) => records'[c] # <<>>
    /\ (Loads(c) /\ pc'[c] = "reply" /\ raised'[c] = "") =>
          /\ IsFind(c) /\ Matching(c, Stored) = <<>>
          /\ resp'[c].status = "not_found"

\* C20: in both servers Find and List never reply error because of the
\* roster; they return every matching record of the Store, and each returned
\* record has the Nombre field, with the entry's name, exactly when the
\* roster read at the join has an entry for its id.
C20_BestEffortEnrichment ==
    [][\A c \in Conn :
          (IsFind(c) \/ IsList(c)) =>
              /\ C20_Rows(c)
              /\ Joins(c) =>
                    /\ pc'[c] = "reply"
                    /\ resp'[c] = Ok([i \in DOMAIN records[c] |->
                                         Named(records[c][i], estudiantes)])]_vars

\* the same with the Nombre field exactly when the roster's entry has a name
\* that is not empty
C20_NonEmptyNameEnrichment ==
    [][\A c \in Conn :
          (IsFind(c) \/ IsList(c)) =>
              /\ C20_Rows(c)
              /\ Joins(c) =>
                    /\ pc'[c] = "reply"
                    /\ resp'[c] = Ok([i \in DOMAIN records[c] |->
                                         NamedIfNotEmpty(records[c][i], estudiantes)])]_vars

\* a record inserted for an id is returned without Nombre after the id left
\* the roster
C20_RemovedAfterInsert ==
    \E c, d \in Conn :
        /\ c \in written_before[d]
        /\ InsertOk(c) /\ IsFind(d) /\ parts[d][2] = InsertId(c)
        /\ pc[d] = "reply" /\ resp[d].status = "ok"
        /\ InsertId(c) \notin DOMAIN estudiantes
        /\ \A i \in DOMAIN resp[d].data : "Nombre" \notin DOMAIN resp[d].data[i]

\* a record is returned without Nombre while the roster has an entry for its
\* id, with an empty name
C20_EmptyNameDropped ==
    \E d \in Conn :
        /\ IsFind(d) /\ pc[d] = "reply" /\ resp[d].status = "ok"
        /\ parts[d][2] \in DOMAIN estudiantes
        /\ \A i \in DOMAIN resp[d].data : "Nombre" \notin DOMAIN resp[d].data[i]

(* ---- C21 ---- *)

\* c's line is ELIMINAR with the id and the Materia field
DeleteWithMateria(c) == Cmd(c) = "ELIMINAR" /\ Len(parts[c]) = 3

\* recs without the records of the pair
WithoutPair(recs, student_id, materia) ==
    SelectSeq(recs, LAMBDA r : ~Matches(r, student_id, materia))

\* the step of c's handler removes the pair of its two fields and nothing
\* else, and replies not_found leaving the Store as it is when no record has
\* the pair
DeletesItsPair(c) ==
    LET student_id == parts[c][2]
        materia == parts[c][3]
    IN  IF PairCount(Stored, student_id, materia) = 0
        THEN /\ resp'[c].status = "not_found"
             /\ pc'[c] = "reply"
             /\ csv' = csv
        ELSE /\ resp'[c].status = "ok"
             /\ IF Threaded
                THEN /\ pc'[c] = "save"
                     /\ records'[c] = WithoutPair(Stored, student_id, materia)
                ELSE load_records(csv') = WithoutPair(Stored, student_id, materia)

\* C21: in both servers ELIMINAR|ID|Materia, the empty Materia field
\* included, removes only the records of the pair (ID, Materia), and replies
\* not_found without writing the Store when no record has the pair.
C21_DeleteWithSubjectCode ==
    [][\A c \in Conn :
          (DeleteWithMateria(c) /\ RunsSection(c)) => DeletesItsPair(c)]_vars

\* the same for the requests whose Materia field is not empty
C21_NonEmptySubjectCode ==
    [][\A c \in Conn :
          (DeleteWithMateria(c) /\ parts[c][3] # "" /\ RunsSection(c)) =>
              DeletesItsPair(c)]_vars

\* ELIMINAR|ID| has removed a record whose Materia is not empty
C21_EmptyFieldRemoves ==
    \E c \in Conn :
        /\ DeleteWithMateria(c) /\ parts[c][3] = ""
        /\ pc[c] = "reply" /\ resp[c].status = "ok"
        /\ resp[c].data["Materia"] # ""

(* ---- C22 ---- *)

\* c is between accept and close
InFlight(c) == pc[c] \notin {"idle", "closed"}

\* c is accepted in this step
Accepted(c) == pc[c] = "idle" /\ pc'[c] # "idle"

\* what the handler of c's command in the sequential server makes of recs
SeqSection(c, recs) ==
    IF Cmd(c) = "AGREGAR"
    THEN seq_handle_agregar_section(P(c), nombre_canonico[c], recs)
    ELSE Section(c, recs)

C22_Inv ==
    ~Threaded =>
        /\ Cardinality({c \in Conn : InFlight(c)}) <= 1
        /\ CSV_LOCK = {}
        /\ \A c \in Conn :
              (pc[c] = "closed" /\ received[c] # <<>>) => HasReply(c)

C22_Act ==
    ~Threaded =>
        /\ \A c \in Conn :
              Accepted(c) =>
                  \A d \in Conn \ {c} :
                      /\ ~InFlight(d)
                      /\ d < c => pc[d] = "closed"
        /\ csv' # csv =>
              \E c \in Conn :
                  /\ InFlight(c) /\ pc'[c] = "reply"
                  /\ load_records(csv') = SeqSection(c, Stored).records
                  /\ \A d \in Conn \ {c} : ~InFlight(d) /\ pc'[d] = pc[d]

\* C22: in the sequential server at most one connection is between accept and
\* close, a connection is accepted only when every connection accepted before
\* it is closed (with its reply built if it sent a line), and the Store file
\* changes only in a step of the one connection in flight, which loads,
\* changes and persists the records in that step; no guard is taken.
C22_SequentialDeployment == []C22_Inv /\ [][C22_Act]_vars

\* the second connection changes the Store after the first one changed it
\* and was closed
C22_Witness ==
    /\ ~Threaded
    /\ \E c, d \in Conn :
          /\ c < d
          /\ pc[c] = "closed" /\ resp[c].status = "ok" /\ Cmd(c) = "AGREGAR"
          /\ pc[d] = "reply" /\ resp[d].status = "ok" /\ Cmd(d) = "ELIMINAR"
          /\ Stored # store0

(* ---- C23 ---- *)

\* c's lookup is in progress on a service that never accepts or never answers
SilentLookup(c) == pc[c] = "nrc_wait" /\ catalog[c] = "silent"

\* c's lookup has ended with an error result and the insert's reply is error
LookupGaveUp(c) ==
    /\ pc[c] = "reply"
    /\ nrc_resp[c].status = <<"error">>
    /\ resp[c].status = "error"

\* c's line is a command other than AGREGAR and is being dispatched
OtherCommand(c) ==
    /\ pc[c] = "dispatch"
    /\ Cmd(c) \in {"BUSCAR", "LISTAR", "ACTUALIZAR", "ELIMINAR"}

\* c's reply has been sent and the connection closed
Replied(c) == pc[c] = "closed" /\ HasReply(c)

\* C23: in the threaded server under fair scheduling, an AGREGAR whose lookup
\* is on a silent catalog service gets an error result from the lookup and
\* its reply with status error is sent; every BUSCAR, LISTAR, ACTUALIZAR and
\* ELIMINAR of a connection gets its reply sent whether or not the lookups
\* of the other connections ever return.
C23_BoundedWait ==
    \A c \in Conn :
        /\ SilentLookup(c) ~> LookupGaveUp(c)
        /\ LookupGaveUp(c) ~> (Replied(c) /\ resp[c].status = "error")
        /\ OtherCommand(c) ~> Replied(c)

\* a connection accepted after an AGREGAR has its update persisted and its
\* reply sent while the lookup of the AGREGAR is still waiting on a silent
\* service
C23_Witness ==
    \E c, d \in Conn :
        /\ c < d
        /\ SilentLookup(c)
        /\ Replied(d) /\ Cmd(d) = "ACTUALIZAR" /\ resp[d].status = "ok"

(* ---- C24 ---- *)

Mutating(c) == Cmd(c) \in {"AGREGAR", "ACTUALIZAR", "ELIMINAR"}

\* seq without its i-th element
RemoveAt(seq, i) == SubSeq(seq, 1, i - 1) \o SubSeq(seq, i + 1, Len(seq))

\* new is old with the one change the successful reply of c's command names
FrameOk(c, old, new, reply) ==
    LET target == reply.data
        IsTarget(r) == Matches(r, target["ID_Estudiante"], target["Materia"])
    IN  CASE Cmd(c) = "AGREGAR" ->
               /\ new = Append(old, Row(InsertId(c), InsertMateria(c), InsertGrade(c)))
               /\ IsTarget(new[Len(new)])
          [] Cmd(c) = "ACTUALIZAR" ->
               /\ Len(new) = Len(old)
               /\ \E i \in DOMAIN old :
                     /\ IsTarget(old[i])
                     /\ new = [old EXCEPT ![i] =
                                  [old[i] EXCEPT !["Calificacion"] =
                                                    target["Calificacion"]]]
               /\ target["Calificacion"] = parts[c][Len(parts[c])]
          [] Cmd(c) = "ELIMINAR" ->
               \E i \in DOMAIN old :
                   IsTarget(old[i]) /\ new = RemoveAt(old, i)
          [] OTHER -> FALSE

\* c's handler, having loaded the Store, decides to persist in this step
DecidesToPersist(c) ==
    IF Threaded THEN pc[c] = "lock" /\ pc'[c] = "save"
    ELSE /\ pc[c] \in {"dispatch", "load"} /\ pc'[c] = "reply"
         /\ Mutating(c) /\ resp'[c].status = "ok"

C24_Act ==
    /\ \A c \in Conn :
          /\ DecidesToPersist(c) =>
                /\ Mutating(c) /\ resp'[c].status = "ok"
                /\ FrameOk(c, Stored,
                           IF Threaded THEN records'[c] ELSE load_records(csv'),
                           resp'[c])
          /\ (Threaded /\ pc[c] = "write" /\ pc'[c] = "reply") =>
                load_records(csv') = records[c] /\ resp'[c] = resp[c]
          /\ (Mutating(c) /\ pc[c] # "reply" /\ pc'[c] = "reply"
                 /\ resp'[c].status = "ok") =>
                (DecidesToPersist(c) \/ (Threaded /\ pc[c] = "write"))
    /\ csv' # csv =>
          \E c \in Conn :
              /\ Mutating(c)
              /\ DecidesToPersist(c) \/ (Threaded /\ pc[c] \in {"save", "write"})

\* C24: in both servers a successful ACTUALIZAR leaves the records as they
\* were but for the grade of the one record its reply names; a successful
\* ELIMINAR removes that one record and nothing else; a successful AGREGAR
\* appends its one record and changes no other; what is persisted is what
\* the handler decided on, and no step of BUSCAR or LISTAR changes the Store.
C24_Frame == [][C24_Act]_vars

\* an update, of a Store with two records, has been persisted after an insert
C24_Witness ==
    \E c, d \in Conn :
        /\ c \in written_before[d]
        /\ InsertOk(c)
        /\ Cmd(d) = "ACTUALIZAR" /\ pc[d] = "reply" /\ resp[d].status = "ok"
        /\ Len(Stored) = 2
        /\ Stored[1]["Calificacion"] # Stored[2]["Calificacion"]

\* a delete has been persisted
C24_Deleted ==
    \E d \in Conn :
        /\ Cmd(d) = "ELIMINAR" /\ pc[d] = "reply" /\ resp[d].status = "ok"
        /\ Len(Stored) < Len(store0)

(* ---- C25 ---- *)

\* c's handler returns in this step
Returns(c) == pc[c] \notin {"reply", "closed"} /\ pc'[c] = "reply"

Rejects(r) == r.status \in {"error", "not_found"}

\* c is inside save_records
Persisting(c) == pc[c] \in {"save", "write"}

C25_Inv == \A c \in Conn : Persisting(c) => resp[c].status = "ok"

C25_Act ==
    \A c \in Conn :
        /\ (Returns(c) /\ Rejects(resp'[c])) =>
                /\ csv' = csv
                /\ ~Persisting(c)
                /\ ~DecidesToPersist(c)
        /\ (pc[c] \in {"reply", "closed"} /\ Rejects(resp[c])) =>
                (pc'[c] \in {"reply", "closed"} /\ resp'[c] = resp[c])
        /\ (pc'[c] # pc[c] /\ csv' # csv) => resp'[c].status = "ok"

\* C25: in both servers the step in which a handler returns a reply of status
\* error or not_found leaves calificaciones.csv as the handler found it, the
\* handler has not been in save_records, and every step that changes the file
\* is a step of a handler whose reply is ok.
C25_NoMutationOnRejection == []C25_Inv /\ [][C25_Act]_vars

\* a duplicate AGREGAR has been answered and the Store is the initial one
C25_Witness ==
    \E c \in Conn :
        /\ pc[c] = "reply" /\ resp[c] = DupError
        /\ Stored = store0 /\ Len(store0) = 1

\* an ELIMINAR of an id with two records has been rejected; both are there
C25_AmbiguousDeleteRejected ==
    \E c \in Conn :
        /\ pc[c] = "reply" /\ Cmd(c) = "ELIMINAR" /\ resp[c].status = "error"
        /\ Len(P(c)) \in {2, 3}
        /\ RecordsOf(Stored, P(c)[2]) = 2

(* ---- C26 ---- *)

\* c has its line and its thread has not ended
Serving(c) == pc[c] \notin {"idle", "await_line", "closed"}

Served(c) == pc[c] = "closed" /\ resp[c] # NoResp

C26_Inv == \A c \in CSV_LOCK : Persisting(c)

C26_Act ==
    \A c \in Conn :
        (pc[c] \in {"lock", "save", "write"} /\ pc'[c] \in {"reply", "est"}) =>
            CSV_LOCK' = {}

\* C26: in the threaded server the guard is held only by a worker that is
\* about to persist or persisting, and it is free after every step that
\* leaves a Store section, with a reply, on to the roster join or with an
\* exception; with every thread scheduled fairly a worker waiting for the
\* guard gets into its section, and a connection whose line was received is
\* answered and closed.
C26_GuardReleaseAndProgress ==
    /\ []C26_Inv
    /\ [][C26_Act]_vars
    /\ \A c \in Conn : (pc[c] = "lock") ~> (pc[c] \in {"save", "est", "reply"})
    /\ \A c \in Conn : Serving(c) ~> Served(c)

\* load_records raised in c's section and d got the guard after that
C26_Witness ==
    \E c, d \in Conn :
        /\ raised[c] = TooManyFiles /\ Returned(c)
        /\ CSV_LOCK = {d} /\ pc[d] = "save"

\* a worker waits for the guard another one holds
C26_Waiting ==
    \E c, d \in Conn : pc[c] = "lock" /\ CSV_LOCK = {d}

\* a worker that waited is served
C26_ServedAfterDuplicate ==
    \E c, d \in Conn :
        /\ Served(c) /\ resp[c] = DupError
        /\ Served(d) /\ InsertOk(d)

(* ---- C27 ---- *)

\* the step of c's request agrees with seq_command on the Store and roster
\* of the moment
C27_Step(c) ==
    LET ref == seq_command(P(c), Stored, estudiantes)
    IN  /\ (Returns(c) /\ pc[c] # "write") =>
              resp'[c] = ref.resp /\ load_records(csv') = ref.store
        /\ (pc[c] = "lock" /\ pc'[c] = "save") =>
              resp'[c] = ref.resp /\ records'[c] = ref.store
        /\ (pc[c] = "save" /\ pc'[c] = "write") =>
              resp'[c] = resp[c] /\ records'[c] = records[c]
        /\ (pc[c] = "write" /\ pc'[c] = "reply") =>
              resp'[c] = resp[c] /\ load_records(csv') = records[c]
        /\ (pc[c] = "reply" /\ pc'[c] = "closed") =>
              resp'[c] = resp[c] /\ csv' = csv

C27_SequentialFind ==
    \E c \in Conn :
        /\ ~Threaded
        /\ Cmd(c) = "BUSCAR" /\ pc[c] = "reply" /\ resp[c].status = "ok"
        /\ resp[c].data # <<>>

(* ---- C28 ---- *)

\* the catalog gate stopped c's insert
CatalogGateFailed(c) == NotFoundRejected(c) \/ LookupFailed(c)

\* the roster gate stopped c's insert
RosterGateFailed(c) ==
    /\ InsertReturned(c)
    /\ nrc_resp[c] # NoNrc /\ ~CatalogGateFailed(c)
    /\ nombre_canonico[c] = <<>>

C28_Inv ==
    \A c \in Conn :
        /\ pc[c] \in {"dispatch", "nrc_wait"} =>
              nrc_resp[c] = NoNrc /\ nombre_canonico[c] = <<>> /\ ~EnteredStore(c)
        /\ pc[c] = "roster" =>
              /\ nrc_resp[c].type = "dict"
              /\ nrc_resp[c].status \notin {<<"error">>, <<"not_found">>}
              /\ nombre_canonico[c] = <<>> /\ ~EnteredStore(c)
        /\ (pc[c] = "lock" /\ Cmd(c) = "AGREGAR") =>
              /\ nrc_resp[c].type = "dict"
              /\ nrc_resp[c].status \notin {<<"error">>, <<"not_found">>}
              /\ nombre_canonico[c] # <<>> /\ ~EnteredStore(c)
        /\ CatalogGateFailed(c) =>
              /\ resp[c].status = "error"
              /\ resp[c] \notin {Error("ID_Estudiante no encontrado en estudiantes.csv"),
                              DupError}
              /\ nombre_canonico[c] = <<>> /\ ~EnteredStore(c)
        /\ RosterGateFailed(c) =>
              /\ resp[c] = Error("ID_Estudiante no encontrado en estudiantes.csv")
              /\ ~EnteredStore(c)
        /\ (InsertReturned(c) /\ resp[c] = DupError) =>
              /\ nrc_resp[c] # NoNrc /\ ~CatalogGateFailed(c)
              /\ nombre_canonico[c] # <<>> /\ EnteredStore(c)

C28_Act ==
    \A c \in Conn :
        /\ nrc_resp'[c] # nrc_resp[c] =>
              \/ nrc_resp[c] = NoNrc /\ pc[c] = "nrc_wait" /\ IsInsert(c)
              \/ nrc_resp'[c] = NoNrc /\ pc'[c] = "closed"
        /\ nombre_canonico'[c] # nombre_canonico[c] =>
              \/ nombre_canonico[c] = <<>> /\ pc[c] = "roster"
              \/ nombre_canonico'[c] = <<>> /\ pc'[c] = "closed"
        /\ (pc[c] # "nrc_wait" /\ pc'[c] = "nrc_wait") => pc[c] = "dispatch"

\* C28: in the threaded server an AGREGAR with five fields gets its lookup's
\* result once and before the roster is read, reads the roster once and
\* before it takes the guard, and returns at the first of the three checks
\* that rejects: a reply after a rejecting lookup is the catalog's error with
\* the roster unread and the guard never taken, and a reply after a missing
\* roster entry is the roster's error with the guard never taken, whatever
\* the later checks would have said.
C28_GateOrder == [](Threaded => C28_Inv) /\ [][Threaded => C28_Act]_vars

\* the lookup failed for an id that is not on the roster and a pair that is
\* stored: three reasons to reject at once
C28_Witness ==
    \E c \in Conn :
        /\ Threaded /\ CatalogGateFailed(c)
        /\ InsertId(c) \notin DOMAIN estudiantes
        /\ PairCount(Stored, InsertId(c), InsertMateria(c)) = 1

\* the roster gate stopped an insert of a stored pair
C28_RosterBeforeDuplicate ==
    \E c \in Conn :
        /\ Threaded /\ RosterGateFailed(c)
        /\ InsertId(c) \notin DOMAIN estudiantes
        /\ PairCount(Stored, InsertId(c), InsertMateria(c)) = 1

(* ---- C29 ---- *)

\* the reply of c was not delivered
ReplyLost(c) == pc[c] = "closed" /\ raised[c] = "[Errno 32] Broken pipe"

C29_Act ==
    /\ \A c \in Conn :
          /\ (pc[c] = "reply" /\ pc'[c] # "reply") =>
                /\ pc'[c] = "closed"
                /\ csv' = csv
                /\ CSV_LOCK' = CSV_LOCK /\ c \notin CSV_LOCK
                /\ resp'[c] = resp[c]
          /\ pc[c] = "closed" => pc'[c] = "closed"
    /\ csv' # csv =>
          \E d \in Conn : pc'[d] # pc[d] /\ pc[d] \notin {"reply", "closed"}

\* C29: in both servers the step in which sendall fails closes the
\* connection and leaves calificaciones.csv and the guard as they are, the
\* guard being held by no worker that has its reply; a closed connection's
\* worker takes no further step, and the file changes only in steps of
\* workers that have not built their reply yet: what a handler persisted is
\* not undone when its reply is lost.
C29_NoRollback ==
    /\ [](\A c \in Conn : ReplyLost(c) => c \notin CSV_LOCK)
    /\ [][C29_Act]_vars

\* the reply to an insert was lost; the record is in the Store
C29_Witness ==
    \E c \in Conn :
        /\ ReplyLost(c) /\ InsertOk(c)
        /\ PairCount(Stored, InsertId(c), InsertMateria(c)) = 1
        /\ PairCount(store0, InsertId(c), InsertMateria(c)) = 0

\* the reply to a delete was lost in the threaded server; the record is gone
C29_DeleteKept ==
    \E c \in Conn :
        /\ Threaded /\ ReplyLost(c)
        /\ Cmd(c) = "ELIMINAR" /\ resp[c].status = "ok"
        /\ Len(Stored) < Len(store0)

====
